---- MODULE Spec2Model ----
(***************************************************************************)
(* A model of the baras combat-log pipeline: the line parser               *)
(* (src/src/parser.rs), the bulk file parse, the combat service            *)
(* (src/app/src-tauri/src/service.rs), the overlay bridge                  *)
(* (src/app/src-tauri/src/bridge.rs) and the string interner               *)
(* (src/core/src/context/interner.rs).                                     *)
(*                                                                         *)
(* Strings are sequences of one-character strings; positions are 0-based   *)
(* as in the Rust source, with -1 standing for Option::None.               *)
(***************************************************************************)
EXTENDS Integers, Sequences, FiniteSets, TLC

VARIABLES
    overflow_checks,  \* build profile: TRUE = debug (arithmetic overflow panics)
    line_number,      \* parse_line: the line number passed in
    line,             \* parse_line: the input line
    parsed,           \* parse_line: the outcome, or Unparsed before the call
    bytes,            \* parse_log_file: the memory-mapped file
    line_ranges,      \* parse_log_file: (start, end) of every line found
    slots,            \* parse_log_file: outcome of the parallel closure per range
    events,           \* parse_log_file: the collected Vec<CombatEvent>
    pcFile,           \* parse_log_file: "split", "parse", "done" or "panicked"
    cmd_queue,        \* CombatService: commands in the mpsc channel behind cmd_rx
    cmds_sent,        \* number of commands sent through the handles so far
    svc_cmd,          \* CombatService::run: the command being handled, or "none"
    svc_stage,        \* CombatService::run: "recv", "stop", "join" or "returned"
    joining,          \* stop_tailing: the JoinHandle taken and awaited, 0 = none
    session,          \* CombatService.session: 0 = None, else the session's number
    tail_handle,      \* CombatService.tail_handle: 0 = None, else the task's number
    tasks,            \* the tail tasks spawned: status and encounter state
    log_read,         \* log events read by the tail tasks so far
    update_chan,      \* the mpsc channel of OverlayUpdate behind overlay_tx
    received,         \* the updates the channel's consumer has received, in order
    produced,         \* overlay bridge: updates sent to the bridge so far
    running,          \* overlay registry: the overlay kinds with a command channel
    ov_chan,          \* the overlay command channel of each kind
    delivered,        \* the commands each overlay thread has taken, in order
    bridge_pc,        \* overlay bridge: "idle" (in rx.recv) or "send" (in tx.send)
    bridge_todo,      \* overlay bridge: the overlay kinds still to send to
    bridge_msg,       \* overlay bridge: the update being handled
    interner_init,    \* INTERNER: whether the OnceLock holds its ThreadedRodeo
    rodeo,            \* the ThreadedRodeo: map (string -> key), strings (key -> string), key counter
    threads,          \* the threads calling intern / resolve: position, argument, result
    intern_calls,     \* calls of intern and resolve made so far
    returned,         \* the <<string, key>> pairs intern has returned
    resolved,         \* the <<key, string>> pairs resolve has returned
    handles_alive,    \* whether a ServiceHandle (a Sender of commands) still exists
    send_result,      \* what the last ServiceHandle call returned: "none", "Ok" or "Err"
    metrics,          \* overlay metrics: the snapshot, a sequence of PlayerMetrics
    overlay_type,     \* overlay metrics: the MetricType asked for
    entries,          \* create_entries_for_type's result, or Uncomputed
    all_entries,      \* create_all_entries' result, or Uncomputed
    fs_events,        \* directory watcher: filesystem events the notify callback got so far
    watch_chan,       \* directory watcher: the mpsc channel behind rx
    watch_last,       \* directory watcher: the event next_event last took from rx
    watch_out,        \* directory watcher: the DirectoryEvent that event gave, or None
    ui_state,         \* OverlayState: tx, handle, is_running, move_mode
    ui_threads,       \* the overlay threads spawned: stage, command queue, click_through
    ui_calls,         \* tauri commands invoked so far
    ui_result,        \* what the last tauri command returned
    wl_state,         \* WaylandState: width, height, pixel_data and shm_data sizes
    wl_calls,         \* set_size calls, Configure events and commits so far
    bar_entries,      \* MeterOverlay: the entries to render
    bar_progress,     \* the fill fractions computed for them, or Uncomputed
    history,          \* data explorer: the encounters signal (the session history)
    show_only_bosses, \* data explorer: the boss-only filter
    sections,         \* data explorer: the sidebar as rendered, group_by_area's result
    selected_encounter, \* data explorer: the selected_encounter signal
    clicked,          \* data explorer: the encounter of the item last clicked
    loaded            \* data explorer: the encounter whose data the queries loaded

parseVars == <<line_number, line, parsed>>
fileVars == <<bytes, line_ranges, slots, events, pcFile>>
svcVars == <<cmd_queue, cmds_sent, svc_cmd, svc_stage, joining, session, tail_handle,
             tasks, log_read>>
chanVars == <<update_chan, received>>
bridgeVars == <<produced, running, ov_chan, delivered, bridge_pc, bridge_todo, bridge_msg>>
internVars == <<interner_init, rodeo, threads, intern_calls, returned, resolved>>
handleVars == <<handles_alive, send_result>>
metricVars == <<metrics, overlay_type, entries, all_entries>>
watchVars == <<fs_events, watch_chan, watch_last, watch_out>>
uiVars == <<ui_state, ui_threads, ui_calls, ui_result>>
wlVars == <<wl_state, wl_calls>>
barVars == <<bar_entries, bar_progress>>
explorerVars == <<history, show_only_bosses, sections, selected_encounter, clicked, loaded>>
extraVars == <<wlVars, barVars, explorerVars>>
laterVars == <<handleVars, metricVars, watchVars, uiVars, extraVars>>

vars == <<overflow_checks, parseVars, fileVars, svcVars, chanVars, bridgeVars, internVars,
          laterVars>>

(***************************************************************************)
(* Bounds                                                                  *)
(***************************************************************************)
MaxJunk == 3        \* longest unstructured text tried after the timestamp
MaxLineNo == 2      \* the line numbers passed to parse_line are 1 and this one
MaxFileLines == 3   \* lines of a file given to parse_log_file
MaxCmds == 3        \* commands sent to the service in one run
MaxLogEvents == 3   \* log events the tail tasks read in one run
UpdateCap == 1      \* capacity of the overlay update channel (created outside src/)
OverlayCap == 1     \* capacity of an overlay command channel (created outside src/)
MaxUpdates == 4     \* updates sent to the overlay bridge in one run
MaxThreads == 2     \* threads calling intern and resolve
MaxInternCalls == 3 \* calls of intern and resolve over all threads
MaxPlayers == 3     \* players in a metrics snapshot
MaxMetricValue == 2 \* largest value of a metric in a snapshot
MaxFsEvents == 2    \* filesystem events given to the watcher's callback
MaxUiCalls == 4     \* overlay commands invoked by the frontend
MaxDim == 2         \* largest width and height of the overlay surface
MaxWlCalls == 4     \* set_size calls, Configure events and commits
MaxBars == 2        \* entries of the meter
MaxBarValue == 2    \* largest max_value of an entry; values go one beyond
MaxEncounters == 3  \* encounters of the session history

(***************************************************************************)
(* Bytes                                                                   *)
(***************************************************************************)
Ord(c) ==
    CASE c = " " -> 32  [] c = "#" -> 35  [] c = "+" -> 43  [] c = "-" -> 45
      [] c = "." -> 46  [] c = "/" -> 47
      [] c = "0" -> 48  [] c = "1" -> 49  [] c = "2" -> 50  [] c = "3" -> 51
      [] c = "4" -> 52  [] c = "5" -> 53  [] c = "6" -> 54  [] c = "7" -> 55
      [] c = "8" -> 56  [] c = "9" -> 57
      [] c = ":" -> 58  [] c = "=" -> 61  [] c = "@" -> 64
      [] c = "A" -> 65  [] c = "B" -> 66  [] c = "P" -> 80
      [] c = "[" -> 91  [] c = "]" -> 93
      [] c = "a" -> 97  [] c = "c" -> 99  [] c = "e" -> 101 [] c = "i" -> 105
      [] c = "l" -> 108 [] c = "t" -> 116
      [] c = "{" -> 123 [] c = "|" -> 124 [] c = "}" -> 125
      [] c = "\n" -> 10

IsDigit(c) == Ord(c) >= 48 /\ Ord(c) <= 57

\* Option::None for a position
NoPos == -1

\* memchr(needle, haystack): 0-based position of the first occurrence
memchr(c, s) ==
    IF \E i \in 1..Len(s) : s[i] = c
    THEN (CHOOSE i \in 1..Len(s) : s[i] = c /\ \A j \in 1..(i - 1) : s[j] # c) - 1
    ELSE NoPos

\* &input[a..b] and &input[a..] with 0-based bounds; SliceOk is Rust's bounds check
SliceOk(s, a, b) == 0 <= a /\ a <= b /\ b <= Len(s)
Slice(s, a, b) == SubSeq(s, a + 1, b)
SliceFrom(s, a) == SubSeq(s, a + 1, Len(s))

\* str::trim over the model's only whitespace byte
RECURSIVE TrimStart(_)
TrimStart(s) == IF s # <<>> /\ Head(s) = " " THEN TrimStart(Tail(s)) ELSE s
RECURSIVE TrimEnd(_)
TrimEnd(s) ==
    IF s # <<>> /\ s[Len(s)] = " " THEN TrimEnd(SubSeq(s, 1, Len(s) - 1)) ELSE s
trim(s) == TrimEnd(TrimStart(s))

(***************************************************************************)
(* parse_i64!: str::parse::<i64>().unwrap_or_default()                     *)
(***************************************************************************)
RECURSIVE DigitsValue(_, _)
DigitsValue(s, acc) ==
    IF s = <<>> THEN acc
    ELSE DigitsValue(Tail(s), acc * 10 + (Ord(Head(s)) - 48))

AllDigits(s) == s # <<>> /\ \A i \in 1..Len(s) : IsDigit(s[i])

RECURSIVE StripZeros(_)
StripZeros(s) == IF s # <<>> /\ Head(s) = "0" THEN StripZeros(Tail(s)) ELSE s

\* i64::MAX = 9223372036854775807 as decimal digits (the magnitude of i64::MIN
\* is one more); the comparison is on digits because the value exceeds the
\* checker's integers
I64MaxDigits ==
    <<"9","2","2","3","3","7","2","0","3","6","8","5","4","7","7","5","8","0","7">>
I64MinDigits ==
    <<"9","2","2","3","3","7","2","0","3","6","8","5","4","7","7","5","8","0","8">>

RECURSIVE LexGreater(_, _)
LexGreater(a, b) ==
    IF a = <<>> THEN FALSE
    ELSE IF Ord(Head(a)) # Ord(Head(b)) THEN Ord(Head(a)) > Ord(Head(b))
    ELSE LexGreater(Tail(a), Tail(b))

\* PosOverflow / NegOverflow of core::num's from_str_radix
Overflows(digits, limit) ==
    LET d == StripZeros(digits)
    IN  Len(d) > Len(limit) \/ (Len(d) = Len(limit) /\ LexGreater(d, limit))

parse_i64(s) ==
    IF s = <<>> THEN 0
    ELSE IF Head(s) = "-"
         THEN IF AllDigits(Tail(s)) /\ ~Overflows(Tail(s), I64MinDigits)
              THEN 0 - DigitsValue(Tail(s), 0) ELSE 0
    ELSE IF Head(s) = "+"
         THEN IF AllDigits(Tail(s)) /\ ~Overflows(Tail(s), I64MaxDigits)
              THEN DigitsValue(Tail(s), 0) ELSE 0
    ELSE IF AllDigits(s) /\ ~Overflows(s, I64MaxDigits)
         THEN DigitsValue(s, 0) ELSE 0

(***************************************************************************)
(* Values of src/src/event_models.rs                                       *)
(***************************************************************************)
\* Entity::default()
DefaultEntity ==
    [name |-> <<>>, class_id |-> 0, log_id |-> 0, entity_type |-> "Empty",
     coordinates |-> "None", health |-> "None"]

\* Timestamp::default()
DefaultTimestamp == [hour |-> 0, minute |-> 0, second |-> 0, millis |-> 0]

\* CombatEvent::default()
DefaultCombatEvent ==
    [line_number |-> 0, timestamp |-> DefaultTimestamp,
     source_entity |-> DefaultEntity,
     target_entity_id |-> "None", target_entity_type |-> "None",
     target_entity_name |-> "None", target_coordinates |-> "None",
     target_health |-> "None", target_max_health |-> "None",
     action_id |-> "None", action_name |-> "None",
     effect_type_id |-> "None", effect_type_name |-> "None",
     effect_id |-> "None", effect_name |-> "None",
     charges |-> "None", damage |-> "None", effective_damage |-> "None",
     damage_type_id |-> "None", is_critical |-> "None", is_reflected |-> "None",
     threat |-> "None", reduction_class_id |-> "None", damage_reduced |-> "None",
     reduction_type_id |-> "None", heal |-> "None", effective_heal |-> "None"]

\* Outcomes of a call: Some(value), None, or a panic that unwinds the caller
None == [tag |-> "None"]
Panic == [tag |-> "Panic"]

(***************************************************************************)
(* parse_timestamp                                                         *)
(***************************************************************************)
\* u8 arithmetic: the exact value, checked against the width after every step
U8Fits(x) == 0 <= x /\ x <= 255
U8Wrap(x) == x % 256

\* (b[i] - b'0') * 10 + (b[j] - b'0') in u8
TwoDigit(hi, lo) ==
    LET d1 == Ord(hi) - 48
        m1 == U8Wrap(d1) * 10
        d2 == Ord(lo) - 48
        sum == U8Wrap(m1) + U8Wrap(d2)
    IN  [fits |-> U8Fits(d1) /\ U8Fits(m1) /\ U8Fits(d2) /\ U8Fits(sum),
         val |-> U8Wrap(sum)]

\* (b[10]-b'0') as u16 * 100 + (b[11]-b'0') as u16 * 10 + (b[12]-b'0') as u16
ThreeDigit(a, b, c) ==
    LET d1 == Ord(a) - 48
        d2 == Ord(b) - 48
        d3 == Ord(c) - 48
    IN  [fits |-> U8Fits(d1) /\ U8Fits(d2) /\ U8Fits(d3),
         val |-> (U8Wrap(d1) * 100 + U8Wrap(d2) * 10 + U8Wrap(d3)) % 65536]

parse_timestamp(checks, input) ==
    IF Len(input) < 14 \/ input[1] # "[" \/ input[4] # ":" \/ input[7] # ":"
       \/ input[10] # "." \/ input[14] # "]"
    THEN None
    ELSE LET hour == TwoDigit(input[2], input[3])
             minute == TwoDigit(input[5], input[6])
             second == TwoDigit(input[8], input[9])
             millis == ThreeDigit(input[11], input[12], input[13])
         IN  IF checks /\ ~(hour.fits /\ minute.fits /\ second.fits /\ millis.fits)
             THEN Panic
             ELSE [tag |-> "Some", rest |-> SliceFrom(input, 14),
                   ts |-> [hour |-> hour.val, minute |-> minute.val,
                           second |-> second.val, millis |-> millis.val]]

(***************************************************************************)
(* parse_entity_name_id                                                    *)
(***************************************************************************)
NameId(name, class_id, log_id, entity_type) ==
    [tag |-> "Some", name |-> name, class_id |-> class_id, log_id |-> log_id,
     entity_type |-> entity_type]

\* Player: "@name#id", mutated to keep the '@' in the name
parse_player_keeps_at(input, name_delim_pos) ==
    IF ~SliceOk(input, 0, name_delim_pos) THEN Panic
    ELSE NameId(Slice(input, 0, name_delim_pos), 0,
                parse_i64(SliceFrom(input, name_delim_pos + 1)), "Player")

\* Player: "@name#id"
parse_player(input, name_delim_pos) ==
    IF ~SliceOk(input, 1, name_delim_pos) THEN Panic
    ELSE NameId(Slice(input, 1, name_delim_pos), 0,
                parse_i64(SliceFrom(input, name_delim_pos + 1)), "Player")

\* Companion, mutated to read the log id where the class id is
parse_companion_swaps_ids(input, name_delim_pos, companion_delim_pos, start_brack_pos, end_brack_pos) ==
    IF ~SliceOk(input, 1, name_delim_pos) THEN Panic
    ELSE IF start_brack_pos = NoPos THEN None
    ELSE IF ~SliceOk(input, companion_delim_pos + 1, start_brack_pos - 1) THEN Panic
    ELSE IF end_brack_pos = NoPos THEN None
    ELSE IF ~SliceOk(input, start_brack_pos + 1, end_brack_pos) THEN Panic
    ELSE IF ~SliceOk(input, end_brack_pos + 2, Len(input)) THEN Panic
    ELSE NameId(Slice(input, companion_delim_pos + 1, start_brack_pos - 1),
                parse_i64(SliceFrom(input, end_brack_pos + 2)),
                parse_i64(Slice(input, start_brack_pos + 1, end_brack_pos)),
                "Companion")

\* Companion: "@owner#id/name {class_id}:log_id"
parse_companion(input, name_delim_pos, companion_delim_pos, start_brack_pos, end_brack_pos) ==
    IF ~SliceOk(input, 1, name_delim_pos) THEN Panic
    ELSE IF start_brack_pos = NoPos THEN None
    ELSE IF ~SliceOk(input, companion_delim_pos + 1, start_brack_pos - 1) THEN Panic
    ELSE IF end_brack_pos = NoPos THEN None
    ELSE IF ~SliceOk(input, start_brack_pos + 1, end_brack_pos) THEN Panic
    ELSE IF ~SliceOk(input, end_brack_pos + 2, Len(input)) THEN Panic
    ELSE NameId(Slice(input, companion_delim_pos + 1, start_brack_pos - 1),
                parse_i64(Slice(input, start_brack_pos + 1, end_brack_pos)),
                parse_i64(SliceFrom(input, end_brack_pos + 2)), "Companion")

\* NPC, mutated to give up on an id that is not made of digits
parse_npc_needs_ids(input, start_brack_pos, end_brack_pos) ==
    IF start_brack_pos = NoPos THEN None
    ELSE IF end_brack_pos = NoPos THEN None
    ELSE IF ~SliceOk(input, start_brack_pos + 1, end_brack_pos) THEN Panic
    ELSE IF ~SliceOk(input, end_brack_pos + 2, Len(input)) THEN Panic
    ELSE IF ~AllDigits(Slice(input, start_brack_pos + 1, end_brack_pos)) THEN None
    ELSE IF ~AllDigits(SliceFrom(input, end_brack_pos + 2)) THEN None
    ELSE NameId(trim(Slice(input, 0, start_brack_pos)),
                parse_i64(Slice(input, start_brack_pos + 1, end_brack_pos)),
                parse_i64(SliceFrom(input, end_brack_pos + 2)), "Npc")

\* NPC: "name {class_id}:log_id"
parse_npc(input, start_brack_pos, end_brack_pos) ==
    IF start_brack_pos = NoPos THEN None
    ELSE IF end_brack_pos = NoPos THEN None
    ELSE IF ~SliceOk(input, start_brack_pos + 1, end_brack_pos) THEN Panic
    ELSE IF ~SliceOk(input, end_brack_pos + 2, Len(input)) THEN Panic
    ELSE NameId(trim(Slice(input, 0, start_brack_pos)),
                parse_i64(Slice(input, start_brack_pos + 1, end_brack_pos)),
                parse_i64(SliceFrom(input, end_brack_pos + 2)), "Npc")

parse_entity_name_id(input) ==
    LET end_brack_pos == memchr("}", input)
        start_brack_pos == memchr("{", input)
        name_delim_pos == memchr("#", input)
        companion_delim_pos == memchr("/", input)
    IN  IF name_delim_pos # NoPos
        THEN IF companion_delim_pos = NoPos
             THEN parse_player(input, name_delim_pos)
             ELSE parse_companion(input, name_delim_pos, companion_delim_pos,
                                  start_brack_pos, end_brack_pos)
        ELSE parse_npc(input, start_brack_pos, end_brack_pos)

(***************************************************************************)
(* parse_entity                                                            *)
(***************************************************************************)
parse_entity(input) ==
    LET delim_pos == memchr("]", input)
        first_pipe == memchr("|", input)
    IN  IF delim_pos = NoPos THEN None
        ELSE IF delim_pos = 1
        THEN [tag |-> "Some", rest |-> SliceFrom(input, 2), entity |-> DefaultEntity]
        ELSE IF Len(input) < 2 THEN Panic            \* bytes[1] out of bounds
        ELSE IF input[2] = "="
        THEN [tag |-> "Some", rest |-> SliceFrom(input, 1), entity |-> DefaultEntity]
        ELSE IF first_pipe = NoPos THEN None
        ELSE IF ~SliceOk(input, 2, first_pipe) THEN Panic
        ELSE LET r == parse_entity_name_id(Slice(input, 2, first_pipe))
             IN  IF r.tag # "Some" THEN r
                 ELSE [tag |-> "Some", rest |-> SliceFrom(input, first_pipe),
                       entity |-> [DefaultEntity EXCEPT !.name = r.name,
                                      !.class_id = r.class_id, !.log_id = r.log_id,
                                      !.entity_type = r.entity_type]]

(***************************************************************************)
(* parse_line                                                              *)
(***************************************************************************)
parse_line(checks, n, text) ==
    LET t == parse_timestamp(checks, text)
    IN  IF t.tag # "Some" THEN t
        ELSE LET e == parse_entity(t.rest)
             IN  IF e.tag # "Some" THEN e
                 ELSE [tag |-> "Some",
                       event |-> [DefaultCombatEvent EXCEPT !.line_number = n,
                                     !.timestamp = t.ts,
                                     !.source_entity = e.entity]]

(***************************************************************************)
(* Input lines for parse_line                                              *)
(***************************************************************************)
RECURSIVE SeqsUpTo(_, _)
SeqsUpTo(A, n) ==
    IF n = 0 THEN {<<>>}
    ELSE LET S == SeqsUpTo(A, n - 1) IN S \cup {Append(t, c) : t \in S, c \in A}

\* "[19:02:15.300]"
ValidTs == <<"[","1","9",":","0","2",":","1","5",".","3","0","0","]">>

\* bytes tried at each of the 14 positions of the timestamp
TsBytes == {"0", "9", "/", ":", "a", "[", "]", "."}

TsSamples ==
    {[ValidTs EXCEPT ![i] = c] : i \in 1..14, c \in TsBytes}
    \cup {<<"[","9","9",":","9","9",":","9","9",".","9","9","9","]">>,
          <<"[","2","3",":","5","9",":","5","9",".","9","9","9","]">>,
          <<"[","0","0",":","0","0",":","0","0",".","0","0","0","]">>,
          SubSeq(ValidTs, 1, 13), <<>>}

\* the bytes the entity grammar looks at, one letter and one digit
JunkBytes == {" ", "[", "]", "=", "|", "@", "#", "/", "{", "}", "A", "1"}
Junk == SeqsUpTo(JunkBytes, MaxJunk)

Names == {<<"A">>, <<"A","B">>, <<"A"," ","B">>, <<"P","e","t">>,
          <<"A","l","i","c","e">>, <<>>}
Numbers == {<<"1">>, <<"7">>, <<"5">>, <<"1","0","0">>, <<"0">>, <<>>, <<"a">>,
            <<"-","5">>}

PlayerSeg(n, d) == <<"@">> \o n \o <<"#">> \o d
CompanionSeg(o, od, n, c, l) ==
    PlayerSeg(o, od) \o <<"/">> \o n \o <<" ", "{">> \o c \o <<"}", ":">> \o l
NpcSeg(n, c, l) == n \o <<" ", "{">> \o c \o <<"}", ":">> \o l

Segments ==
    {PlayerSeg(n, d) : n \in Names, d \in Numbers}
    \cup {CompanionSeg(<<"A","l","i","c","e">>, <<"1","0","0">>, n, c, l) :
            n \in Names, c \in Numbers, l \in Numbers}
    \cup {NpcSeg(n, c, l) : n \in Names, c \in Numbers, l \in Numbers}

\* what follows the name segment: nothing but the bracket, or '|'-delimited
\* coordinates and health
SegTails == {<<"]">>, <<"|", "]">>, <<"|", "1", "|", "1", "]">>, <<"|">>}

\* 9223372036854775808 = i64::MAX + 1: all digits, yet not an i64
TooBig == <<"9","2","2","3","3","7","2","0","3","6","8","5","4","7","7","5","8","0","8">>

\* segments with a number out of the range of i64
TooBigSegments ==
    {PlayerSeg(<<"A">>, TooBig),
     CompanionSeg(<<"A","l","i","c","e">>, <<"1","0","0">>, <<"P","e","t">>, TooBig, <<"7">>),
     CompanionSeg(<<"A","l","i","c","e">>, <<"1","0","0">>, <<"P","e","t">>, <<"5">>, TooBig),
     NpcSeg(<<"A">>, TooBig, <<"1">>), NpcSeg(<<"A">>, <<"1">>, TooBig)}

\* the source segments "[]" and "[=]", alone and followed by the rest of a line
SentinelRests ==
    {<<" ", "[", "]">>, <<" ", "[", "=", "]">>,
     <<" ", "[", "]", " ", "[", "]">>, <<" ", "[", "=", "]", " ", "[", "=", "]">>,
     <<" ", "[", "]", " ", "[", "@", "A", "#", "1", "|", "]">>}

Rests ==
    {<<" ", "[">> \o g \o t : g \in Segments \cup TooBigSegments, t \in SegTails}
    \cup {<<" ", "[">> \o j \o <<"|", "]">> : j \in Junk}
    \cup Junk
    \cup SentinelRests

Lines ==
    {ValidTs \o r : r \in Rests}
    \cup {t \o r : t \in TsSamples,
                   r \in {<<>>, <<" ", "[", "]">>, <<" ", "[", "@", "A", "#", "1", "|", "]">>}}

Unparsed == [tag |-> "Unparsed"]

(***************************************************************************)
(* parse_line applied to one line                                          *)
(***************************************************************************)
\* the parts of the state a specification does not use
ParseIdle == line_number = 1 /\ line = <<>> /\ parsed = Unparsed
FileIdle ==
    /\ bytes = <<>> /\ line_ranges = <<>> /\ slots = <<>> /\ events = <<>>
    /\ pcFile = "idle"
ServiceIdle ==
    /\ cmd_queue = <<>> /\ cmds_sent = 0 /\ svc_cmd = "none" /\ svc_stage = "idle"
    /\ joining = 0 /\ session = 0 /\ tail_handle = 0 /\ tasks = <<>> /\ log_read = 0
\* no update in hand
NoUpdate == [kind |-> "none", data |-> 0]

ChanIdle == update_chan = <<>> /\ received = <<>>
BridgeIdle ==
    /\ produced = 0 /\ running = {} /\ ov_chan = <<>> /\ delivered = <<>>
    /\ bridge_pc = "off" /\ bridge_todo = <<>> /\ bridge_msg = NoUpdate
\* ThreadedRodeo::default(): no string, the key counter at 0
EmptyRodeo == [map |-> <<>>, strings |-> <<>>, key |-> 0]

InternIdle ==
    /\ interner_init = FALSE /\ rodeo = EmptyRodeo /\ threads = <<>>
    /\ intern_calls = 0 /\ returned = {} /\ resolved = {}

\* no result yet, and the result of a call
Uncomputed == [tag |-> "Uncomputed"]
Computed(v) == [tag |-> "Computed", value |-> v]

HandleIdle == handles_alive = TRUE /\ send_result = "none"
MetricIdle ==
    /\ metrics = <<>> /\ overlay_type = "none" /\ entries = Uncomputed
    /\ all_entries = Uncomputed
WatchIdle ==
    /\ fs_events = 0 /\ watch_chan = <<>>
    /\ watch_last = [ok |-> TRUE, kind |-> "none", paths |-> <<>>] /\ watch_out = None
\* OverlayState::default()
DefaultOverlayState == [tx |-> 0, handle |-> 0, is_running |-> FALSE, move_mode |-> FALSE]
UiIdle ==
    /\ ui_state = DefaultOverlayState /\ ui_threads = <<>> /\ ui_calls = 0
    /\ ui_result = [cmd |-> "none", tag |-> "Ok", value |-> <<>>, err |-> ""]
\* no Wayland surface, nothing to render, an empty data explorer
WlIdle ==
    /\ wl_state = [width |-> 0, height |-> 0, pixel_data |-> 0, shm_data |-> 0,
                   last_written |-> -1]
    /\ wl_calls = 0
BarIdle == bar_entries = <<>> /\ bar_progress = Uncomputed
ExplorerIdle ==
    /\ history = <<>> /\ show_only_bosses = FALSE /\ sections = <<>>
    /\ selected_encounter = None /\ clicked = None /\ loaded = None
ExtraIdle == WlIdle /\ BarIdle /\ ExplorerIdle

InitParse ==
    /\ HandleIdle /\ MetricIdle /\ WatchIdle /\ UiIdle /\ ExtraIdle
    /\ InternIdle
    /\ overflow_checks \in BOOLEAN
    /\ line_number \in {1, MaxLineNo}
    /\ line \in Lines
    /\ parsed = Unparsed
    /\ FileIdle /\ ServiceIdle /\ ChanIdle /\ BridgeIdle

ParseLine ==
    /\ parsed = Unparsed
    /\ parsed' = parse_line(overflow_checks, line_number, line)
    /\ UNCHANGED <<overflow_checks, laterVars, internVars, line_number, line, fileVars, svcVars, chanVars, bridgeVars>>

NextParse == ParseLine

SpecParse == InitParse /\ [][NextParse]_vars

(***************************************************************************)
(* Claims about parse_line                                                 *)
(***************************************************************************)
Some(ev) == [tag |-> "Some", event |-> ev]

\* the event parse_line is to build from its three parsed parts
ExpectedEvent(n, ts, name, class_id, log_id, kind) ==
    [DefaultCombatEvent EXCEPT
        !.line_number = n, !.timestamp = ts,
        !.source_entity = [name |-> name, class_id |-> class_id, log_id |-> log_id,
                           entity_type |-> kind, coordinates |-> "None",
                           health |-> "None"]]

\* timestamps of the sample whose 14 bytes are in alphabet and in range
TsDigitsOk(t) ==
    /\ Len(t) = 14
    /\ t[1] = "[" /\ t[4] = ":" /\ t[7] = ":" /\ t[10] = "." /\ t[14] = "]"
    /\ \A i \in {2, 3, 5, 6, 8, 9, 11, 12, 13} : IsDigit(t[i])
TsValue(t) ==
    [hour |-> DigitsValue(<<t[2], t[3]>>, 0), minute |-> DigitsValue(<<t[5], t[6]>>, 0),
     second |-> DigitsValue(<<t[8], t[9]>>, 0),
     millis |-> DigitsValue(<<t[11], t[12], t[13]>>, 0)]
ValidTimestamps ==
    {t \in TsSamples : TsDigitsOk(t) /\ TsValue(t).hour <= 23
                       /\ TsValue(t).minute <= 59 /\ TsValue(t).second <= 59}

PlainNames == Names \ {<<>>}
DigitNumbers == {d \in Numbers : AllDigits(d)}
\* a '|' right after the name segment and the closing bracket later in the line
PipeTails == {t \in SegTails : Head(t) = "|" /\ \E i \in 1..Len(t) : t[i] = "]"}

\* the source segment, after the 14 timestamp bytes, a space and '[', starts with c
StartsSegment(l, c) == Len(l) >= 17 /\ l[17] = c

AliceLine == ValidTs \o <<" ", "[">> \o PlayerSeg(<<"A","l","i","c","e">>, <<"1","0","0">>)
PetLine ==
    ValidTs \o <<" ", "[">>
    \o CompanionSeg(<<"A","l","i","c","e">>, <<"1","0","0">>, <<"P","e","t">>, <<"5">>, <<"7">>)

C3_NeverAborts == parsed # Unparsed => parsed.tag \in {"Some", "None"}

\* the inputs with a byte out of alphabet at one of the 14 positions: a wrong
\* delimiter at offset 0, 3, 6, 9 or 13, or a non-digit at a digit offset
OutOfAlphabet(t) ==
    /\ Len(t) >= 14
    /\ \/ t[1] # "[" \/ t[4] # ":" \/ t[7] # ":" \/ t[10] # "." \/ t[14] # "]"
       \/ \E i \in {2, 3, 5, 6, 8, 9, 11, 12, 13} : ~IsDigit(t[i])

\* C14: parse_timestamp returns None for every input with an out-of-alphabet
\* byte at any of the 14 positions, a non-digit at a digit position included.
C14_RejectsOutOfAlphabet ==
    parsed # Unparsed /\ OutOfAlphabet(line) =>
        parse_timestamp(overflow_checks, line) = None

\* C15: every Timestamp parse_timestamp produces has hour <= 23, minute <= 59,
\* second <= 59 and millis <= 999, and its 8-bit arithmetic never overflows.
C15_TimestampInRange ==
    parsed # Unparsed =>
        LET t == parse_timestamp(overflow_checks, line)
        IN  /\ t # Panic
            /\ t.tag = "Some" =>
                  /\ t.ts.hour \in 0..23 /\ t.ts.minute \in 0..59
                  /\ t.ts.second \in 0..59 /\ t.ts.millis \in 0..999

\* the numbers of the sample that str::parse::<i64> refuses: empty, not a
\* digit, out of range
BadNumbers == {<<>>, <<"a">>, TooBig}
NumberValue(d) ==
    IF d \in BadNumbers THEN 0
    ELSE IF d = <<"-", "5">> THEN 0 - 5
    ELSE DigitsValue(d, 0)

\* source entity with the given name, ids and kind
NamedEntity(name, class_id, log_id, kind) ==
    [DefaultEntity EXCEPT !.name = name, !.class_id = class_id, !.log_id = log_id,
                          !.entity_type = kind]

\* well-structured lines in which a numeric sub-field does not parse, each with
\* the source entity it is to give
BadNumberCases ==
    {<<ValidTs \o <<" ", "[">> \o PlayerSeg(n, d) \o t, NamedEntity(n, 0, 0, "Player")>> :
        n \in Names, d \in BadNumbers \ {TooBig}, t \in PipeTails}
    \cup {<<ValidTs \o <<" ", "[">> \o CompanionSeg(<<"A","l","i","c","e">>, <<"1","0","0">>, x[1], x[2], x[3]) \o t,
            NamedEntity(x[1], NumberValue(x[2]), NumberValue(x[3]), "Companion")>> :
        x \in {y \in Names \X Numbers \X Numbers : y[2] \in BadNumbers \/ y[3] \in BadNumbers},
        t \in PipeTails}
    \cup {<<ValidTs \o <<" ", "[">> \o NpcSeg(x[1], x[2], x[3]) \o t,
            NamedEntity(x[1], NumberValue(x[2]), NumberValue(x[3]), "Npc")>> :
        x \in {y \in Names \X Numbers \X Numbers : y[2] \in BadNumbers \/ y[3] \in BadNumbers},
        t \in PipeTails}
    \cup {<<ValidTs \o <<" ", "[">> \o PlayerSeg(<<"A">>, TooBig) \o t, NamedEntity(<<"A">>, 0, 0, "Player")>> :
        t \in PipeTails}
    \cup {<<ValidTs \o <<" ", "[">> \o CompanionSeg(<<"A","l","i","c","e">>, <<"1","0","0">>, <<"P","e","t">>, TooBig, <<"7">>) \o t,
            NamedEntity(<<"P","e","t">>, 0, 7, "Companion")>> : t \in PipeTails}
    \cup {<<ValidTs \o <<" ", "[">> \o CompanionSeg(<<"A","l","i","c","e">>, <<"1","0","0">>, <<"P","e","t">>, <<"5">>, TooBig) \o t,
            NamedEntity(<<"P","e","t">>, 5, 0, "Companion")>> : t \in PipeTails}
    \cup {<<ValidTs \o <<" ", "[">> \o NpcSeg(<<"A">>, TooBig, <<"1">>) \o t, NamedEntity(<<"A">>, 0, 1, "Npc")>> :
        t \in PipeTails}
    \cup {<<ValidTs \o <<" ", "[">> \o NpcSeg(<<"A">>, <<"1">>, TooBig) \o t, NamedEntity(<<"A">>, 1, 0, "Npc")>> :
        t \in PipeTails}
BadNumberLines == {c[1] : c \in BadNumberCases}

\* C16: a well-structured line whose numeric sub-field (player log_id, companion
\* or NPC class_id and log_id) does not parse as an i64 is accepted, with that
\* field 0 and the other fields as written.
C16_BadNumberDefaultsToZero ==
    parsed # Unparsed /\ line \in BadNumberLines =>
        /\ parsed.tag = "Some"
        /\ <<line, parsed.event.source_entity>> \in BadNumberCases
        /\ parsed.event = [DefaultCombatEvent EXCEPT
                              !.line_number = line_number,
                              !.timestamp = TsValue(ValidTs),
                              !.source_entity = parsed.event.source_entity]

\* an NPC line whose class_id is out of the range of i64 has been parsed
C16_Witness ==
    /\ line = ValidTs \o <<" ", "[">> \o NpcSeg(<<"A">>, TooBig, <<"1">>) \o <<"|", "]">>
    /\ parsed.tag = "Some"
    /\ parsed.event.source_entity.entity_type = "Npc"
    /\ parsed.event.source_entity.class_id = 0
    /\ parsed.event.source_entity.log_id = 1

\* C17: the source entity of every event satisfies the Entity invariant: a
\* Player has a non-empty name and a log_id other than 0; an Empty entity has
\* every field default.
C17_EntityInvariant ==
    parsed # Unparsed /\ parsed.tag = "Some" =>
        LET e == parsed.event.source_entity
        IN  /\ e.entity_type = "Player" => e.name # <<>> /\ e.log_id # 0
            /\ e.entity_type = "Empty" => e = DefaultEntity

\* the event of a line whose source entity is Empty
EmptySourceEvent ==
    [DefaultCombatEvent EXCEPT !.line_number = line_number, !.timestamp = TsValue(ValidTs)]

\* the source segment is exactly the given bytes: they follow the timestamp and
\* a space, and the line ends or goes on with a space after them
SourceSegmentIs(l, seg) ==
    /\ Len(l) >= 15 + Len(seg)
    /\ SubSeq(l, 1, 15) = ValidTs \o <<" ">>
    /\ SubSeq(l, 16, 15 + Len(seg)) = seg
    /\ Len(l) > 15 + Len(seg) => l[16 + Len(seg)] = " "

\* C18: a line whose source segment is "[]" is accepted with an Empty source
\* entity, all fields default, and one whose source segment is "[=]" is
\* accepted as well, as the no-entity sentinel.
C18_EmptyAndSentinelAccepted ==
    parsed # Unparsed =>
        /\ SourceSegmentIs(line, <<"[", "]">>) => parsed = Some(EmptySourceEvent)
        /\ SourceSegmentIs(line, <<"[", "=", "]">>) => parsed = Some(EmptySourceEvent)

\* the name segment parse_entity cuts out of a line: from offset 2 of what
\* follows the timestamp up to the first '|'
NameSegmentOf(l) ==
    LET rest == SliceFrom(l, 14)
    IN  IF memchr("|", rest) >= 2 THEN Slice(rest, 2, memchr("|", rest)) ELSE <<>>

\* C19: the kind of a parsed entity follows the grammar's tokens: '@' first
\* and no '/' gives a Player with class_id 0, '@' first and a '/' gives a
\* Companion, and a segment that does not start with '@' is an Npc, never a
\* Player or a Companion, even with a '#' in its name.
C19_KindFollowsGrammar ==
    parsed # Unparsed /\ parsed.tag = "Some"
    /\ parsed.event.source_entity.entity_type # "Empty" =>
        LET seg == NameSegmentOf(line)
            e == parsed.event.source_entity
        IN  IF seg = <<>> THEN FALSE
            ELSE IF Head(seg) # "@" THEN e.entity_type = "Npc"
            ELSE IF memchr("/", seg) = NoPos
            THEN e.entity_type = "Player" /\ e.class_id = 0
            ELSE e.entity_type = "Companion"

(***************************************************************************)
(* parse_log_file                                                          *)
(***************************************************************************)
\* the lines a file is made of: two accepted, one rejected, one that panics,
\* and the blank line
FileLineKinds ==
    {ValidTs \o <<" ", "[", "@", "A", "#", "1", "|", "]">>,
     ValidTs \o <<" ", "[", "]">>,
     ValidTs,
     ValidTs \o <<"]">>,
     <<>>}

RECURSIVE JoinLines(_)
JoinLines(ls) ==
    IF ls = <<>> THEN <<>>
    ELSE IF Len(ls) = 1 THEN ls[1]
    ELSE ls[1] \o <<"\n">> \o JoinLines(Tail(ls))

RECURSIVE LineSeqs(_)
LineSeqs(n) ==
    IF n = 0 THEN {<<>>}
    ELSE LET S == LineSeqs(n - 1)
         IN  S \cup {Append(t, l) : t \in {u \in S : Len(u) = n - 1}, l \in FileLineKinds}

\* with and without the final newline
Files ==
    {JoinLines(ls) : ls \in LineSeqs(MaxFileLines)}
    \cup {JoinLines(ls) \o <<"\n">> : ls \in LineSeqs(MaxFileLines)}

\* the loop over memchr_iter(b'\n', bytes): pos scans the file, start is the
\* start of the current line, acc the ranges pushed so far (0-based, end exclusive)
RECURSIVE SplitLoop(_, _, _, _)
SplitLoop(b, pos, start, acc) ==
    IF pos = Len(b)
    THEN IF start < Len(b) THEN Append(acc, <<start, Len(b)>>) ELSE acc
    ELSE IF b[pos + 1] = "\n"
         THEN SplitLoop(b, pos + 1, pos + 1,
                        IF pos > start THEN Append(acc, <<start, pos>>) ELSE acc)
         ELSE SplitLoop(b, pos + 1, start, acc)

find_line_ranges(b) == SplitLoop(b, 0, 0, <<>>)

\* the closure given to filter_map: |(idx, &(start, end))| parse_line(idx + 1, line)
parse_range(checks, b, idx, range) ==
    parse_line(checks, idx + 1, Slice(b, range[1], range[2]))

\* collect(), mutated to join the right half before the left
RECURSIVE collect_reversed(_)
collect_reversed(rs) ==
    IF rs = <<>> THEN <<>>
    ELSE collect_reversed(Tail(rs))
         \o (IF Head(rs).tag = "Some" THEN <<Head(rs).event>> ELSE <<>>)

\* filter_map(..).collect() of an indexed parallel iterator: the Some values in
\* the order of the items, whatever the order the closures ran in
RECURSIVE collect(_)
collect(rs) ==
    IF rs = <<>> THEN <<>>
    ELSE (IF Head(rs).tag = "Some" THEN <<Head(rs).event>> ELSE <<>>)
         \o collect(Tail(rs))

InitFile ==
    /\ HandleIdle /\ MetricIdle /\ WatchIdle /\ UiIdle /\ ExtraIdle
    /\ InternIdle
    /\ overflow_checks \in BOOLEAN
    /\ ParseIdle
    /\ bytes \in Files
    /\ line_ranges = <<>>
    /\ slots = <<>>
    /\ events = <<>>
    /\ pcFile = "split"
    /\ ServiceIdle /\ ChanIdle /\ BridgeIdle

\* lines 21-32: find all line boundaries
SplitLines ==
    /\ pcFile = "split"
    /\ line_ranges' = find_line_ranges(bytes)
    /\ slots' = [i \in 1..Len(find_line_ranges(bytes)) |-> Unparsed]
    /\ pcFile' = "parse"
    /\ UNCHANGED <<overflow_checks, laterVars, internVars, parseVars, svcVars, chanVars, bridgeVars, bytes, events>>

\* lines 34-40: a worker runs the closure on one range, in any order
ParseRange(i) ==
    /\ pcFile = "parse"
    /\ slots[i] = Unparsed
    /\ slots' = [slots EXCEPT ![i] = parse_range(overflow_checks, bytes, i - 1,
                                                 line_ranges[i])]
    /\ UNCHANGED <<overflow_checks, laterVars, internVars, parseVars, svcVars, chanVars, bridgeVars, bytes, line_ranges, events, pcFile>>

\* line 41: every closure returned; the results are collected
Collect ==
    /\ pcFile = "parse"
    /\ \A i \in 1..Len(slots) : slots[i].tag \in {"Some", "None"}
    /\ events' = collect(slots)
    /\ pcFile' = "done"
    /\ UNCHANGED <<overflow_checks, laterVars, internVars, parseVars, svcVars, chanVars, bridgeVars, bytes, line_ranges, slots>>

\* a closure panicked: the panic is resumed in the caller of collect(), whether
\* or not the other closures have run
Unwind ==
    /\ pcFile = "parse"
    /\ \E i \in 1..Len(slots) : slots[i].tag = "Panic"
    /\ pcFile' = "panicked"
    /\ UNCHANGED <<overflow_checks, laterVars, internVars, parseVars, svcVars, chanVars, bridgeVars, bytes, line_ranges, slots, events>>

NextFile ==
    \/ SplitLines
    \/ \E i \in 1..Len(slots) : ParseRange(i)
    \/ Collect
    \/ Unwind

SpecFile == InitFile /\ [][NextFile]_vars

(***************************************************************************)
(* Claims about parse_log_file                                             *)
(***************************************************************************)
\* number of newline bytes before 0-based offset p
NewlinesBefore(b, p) == Cardinality({i \in 1..p : b[i] = "\n"})

\* C4: the events returned are in file order and their line numbers strictly
\* increase: each event is the parse of the range at its line number, and later
\* events come from later byte offsets.
C4_EventsInFileOrder ==
    pcFile = "done" =>
        /\ \A k \in 1..Len(events) :
             /\ events[k].line_number \in 1..Len(line_ranges)
             /\ slots[events[k].line_number] = Some(events[k])
        /\ \A k \in 1..(Len(events) - 1) :
             /\ events[k].line_number < events[k + 1].line_number
             /\ line_ranges[events[k].line_number][1]
                  < line_ranges[events[k + 1].line_number][1]
        /\ Len(events) = Cardinality({i \in 1..Len(slots) : slots[i].tag = "Some"})

C4_Witness ==
    /\ pcFile = "done"
    /\ Len(events) = 3
    /\ slots[1].tag = "Some"

\* C5: the line number of every returned event is the 1-based position of its
\* line in the file, blank lines counted.
C5_LineNumberIsFilePosition ==
    pcFile = "done" =>
        \A i \in 1..Len(slots) :
            slots[i].tag = "Some" =>
                /\ \E k \in 1..Len(events) : events[k] = slots[i].event
                /\ slots[i].event.line_number
                     = NewlinesBefore(bytes, line_ranges[i][1]) + 1

\* The count of rejected lines parse_log_file leaves behind: it returns only
\* Ok(events); filter_map discards the None of a rejected line and no counter
\* is kept, in parse_line or around it.
LineMalformed == 0

\* C20: every rejected line is counted once: when parse_log_file has returned,
\* the events plus the dropped-line counter make up the non-blank lines, and
\* the file "[19:02:15.300]" gives no event and a count of one.
C20_RejectedLinesCounted ==
    pcFile = "done" =>
        /\ Len(events) + LineMalformed = Len(line_ranges)
        /\ bytes = ValidTs => events = <<>> /\ LineMalformed = 1

(***************************************************************************)
(* The combat service: src/app/src-tauri/src/service.rs                    *)
(***************************************************************************)
\* mpsc::channel(32) of ServiceCommand
CmdCapacity == 32

\* ServiceCommand; the path of StartTailing plays no part in what follows
ServiceCommands == {"StartTailing", "StopTailing", "RefreshIndex", "Shutdown"}

\* what the tail task reads from the log, by effect type
LogEvents == {"EnterCombat", "ExitCombat", "Other"}

\* The encounter state machine of the parsing session: the state after an
\* event and the lifecycle signals it fires, in order.  An EnterCombat while
\* InCombat ends the running encounter and starts the next.
EncounterStep(combat, ev) ==
    IF ev = "EnterCombat"
    THEN [combat |-> "InCombat",
          signals |-> IF combat = "InCombat"
                      THEN <<"CombatEnded", "CombatStarted">>
                      ELSE <<"CombatStarted">>]
    ELSE IF ev = "ExitCombat" /\ combat = "InCombat"
    THEN [combat |-> "Idle", signals |-> <<"CombatEnded">>]
    ELSE [combat |-> combat, signals |-> <<"Other">>]

\* OverlayUpdate: the variant and, for MetricsUpdated and PersonalStatsUpdated,
\* the snapshot it carries (0 for the lifecycle variants)
Update(kind, data) == [kind |-> kind, data |-> data]

\* Sender::try_send, mutated to make room by discarding the oldest update
try_send_evicting(chan, update) ==
    IF Len(chan) < UpdateCap THEN Append(chan, update)
    ELSE Append(Tail(chan), update)

\* tokio's Sender::try_send on the bounded channel: Err(Full) leaves it as it is
try_send(chan, update) ==
    IF Len(chan) < UpdateCap THEN Append(chan, update) ELSE chan

\* OverlaySignalHandler::handle_signal: the channel after the signal
handle_signal(chan, signal) ==
    IF signal \in {"CombatStarted", "CombatEnded"}
    THEN try_send(chan, Update(signal, 0))    \* the result is discarded
    ELSE chan

RECURSIVE handle_signals(_, _)
handle_signals(chan, signals) ==
    IF signals = <<>> THEN chan
    ELSE handle_signals(handle_signal(chan, Head(signals)), Tail(signals))

InitService ==
    /\ HandleIdle /\ MetricIdle /\ WatchIdle /\ UiIdle /\ ExtraIdle
    /\ InternIdle
    /\ overflow_checks = FALSE
    /\ ParseIdle /\ FileIdle
    /\ cmd_queue = <<>>
    /\ cmds_sent = 0
    /\ svc_cmd = "none"
    /\ svc_stage = "recv"
    /\ joining = 0
    /\ session = 0
    /\ tail_handle = 0
    /\ tasks = <<>>
    /\ log_read = 0
    /\ update_chan = <<>>
    /\ received = <<>>
    /\ BridgeIdle

\* Sender::send, mutated into try_send with the result ignored: a full queue
\* loses the command
send_or_drop(queue, closed, cmd) ==
    IF closed THEN [ready |-> TRUE, result |-> "Err", queue |-> queue]
    ELSE IF Len(queue) < CmdCapacity
    THEN [ready |-> TRUE, result |-> "Ok", queue |-> Append(queue, cmd)]
    ELSE [ready |-> TRUE, result |-> "Ok", queue |-> queue]

\* tokio's Sender::send(cmd).await on the bounded channel: Err once the receiver
\* is gone, Ok when the command is queued, not ready while the queue is full
send(queue, closed, cmd) ==
    IF closed THEN [ready |-> TRUE, result |-> "Err", queue |-> queue]
    ELSE IF Len(queue) < CmdCapacity
    THEN [ready |-> TRUE, result |-> "Ok", queue |-> Append(queue, cmd)]
    ELSE [ready |-> FALSE, result |-> "none", queue |-> queue]

\* the receiver of the command channel is dropped with the service, when run
\* has returned
ReceiverDropped == svc_stage = "returned"

\* ServiceHandle::start_tailing / stop_tailing / refresh_index, and a Shutdown:
\* cmd_tx.send(cmd).await completes when the queue has room or is closed
ClientSend(cmd) ==
    /\ handles_alive
    /\ cmds_sent < MaxCmds
    /\ send(cmd_queue, ReceiverDropped, cmd).ready
    /\ cmd_queue' = send(cmd_queue, ReceiverDropped, cmd).queue
    /\ send_result' = send(cmd_queue, ReceiverDropped, cmd).result
    /\ cmds_sent' = cmds_sent + 1
    /\ UNCHANGED <<overflow_checks, metricVars, watchVars, uiVars, extraVars, internVars, parseVars, fileVars,
                   bridgeVars, chanVars, svc_cmd, svc_stage, joining, session, tail_handle,
                   tasks, log_read, handles_alive>>

\* the last ServiceHandle is dropped
DropHandles ==
    /\ handles_alive
    /\ handles_alive' = FALSE
    /\ UNCHANGED <<overflow_checks, metricVars, watchVars, uiVars, extraVars, internVars, parseVars, fileVars,
                   bridgeVars, chanVars, svcVars, send_result>>

\* run: cmd_rx.recv().await returned None, the queue being empty and every
\* sender dropped; the loop ends
SvcRecvNone ==
    /\ svc_stage = "recv"
    /\ cmd_queue = <<>>
    /\ ~handles_alive
    /\ svc_stage' = "returned"
    /\ UNCHANGED <<overflow_checks, laterVars, internVars, parseVars, fileVars, bridgeVars, chanVars,
                   cmd_queue, cmds_sent, svc_cmd, joining, session, tail_handle, tasks,
                   log_read>>

\* run: cmd_rx.recv().await returned a command.  RefreshIndex is handled on the
\* spot; the other three start with stop_tailing.
SvcRecv ==
    /\ svc_stage = "recv"
    /\ cmd_queue # <<>>
    /\ cmd_queue' = Tail(cmd_queue)
    /\ IF Head(cmd_queue) = "RefreshIndex"
       THEN UNCHANGED <<svc_cmd, svc_stage>>
       ELSE svc_cmd' = Head(cmd_queue) /\ svc_stage' = "stop"
    /\ UNCHANGED <<overflow_checks, laterVars, internVars, parseVars, fileVars, bridgeVars, chanVars, cmds_sent, joining,
                   session, tail_handle, tasks, log_read>>

\* what follows stop_tailing, mutated to go on receiving after a Shutdown
AfterStopNoBreak ==
    IF svc_cmd = "StartTailing"
    THEN /\ session' = Len(tasks) + 1
         /\ tail_handle' = Len(tasks) + 1
         /\ tasks' = Append(tasks, [status |-> "running", combat |-> "Idle"])
         /\ svc_stage' = "recv"
    ELSE /\ session' = 0
         /\ UNCHANGED <<tail_handle, tasks>>
         /\ svc_stage' = "recv"

\* what follows stop_tailing in the command being handled: StartTailing creates
\* the session and spawns its tail task, Shutdown leaves the loop
AfterStop ==
    IF svc_cmd = "StartTailing"
    THEN /\ session' = Len(tasks) + 1
         /\ tail_handle' = Len(tasks) + 1
         /\ tasks' = Append(tasks, [status |-> "running", combat |-> "Idle"])
         /\ svc_stage' = "recv"
    ELSE /\ session' = 0
         /\ UNCHANGED <<tail_handle, tasks>>
         /\ svc_stage' = IF svc_cmd = "Shutdown" THEN "returned" ELSE "recv"

\* stop_tailing with no handle: session = None and on
StopNoTask ==
    /\ svc_stage = "stop"
    /\ tail_handle = 0
    /\ AfterStop
    /\ svc_cmd' = "none"
    /\ UNCHANGED <<overflow_checks, laterVars, internVars, parseVars, fileVars, bridgeVars, chanVars, cmd_queue, cmds_sent,
                   joining, log_read>>

\* stop_tailing: tail_handle.take(), handle.abort(), then handle.await
StopAbort ==
    /\ svc_stage = "stop"
    /\ tail_handle # 0
    /\ joining' = tail_handle
    /\ tail_handle' = 0
    /\ tasks' = [tasks EXCEPT ![tail_handle].status =
                    IF @ = "running" THEN "aborting" ELSE @]
    /\ svc_stage' = "join"
    /\ UNCHANGED <<overflow_checks, laterVars, internVars, parseVars, fileVars, bridgeVars, chanVars, cmd_queue, cmds_sent,
                   svc_cmd, session, log_read>>

\* stop_tailing, mutated not to await the aborted task
StopJoinNoWait ==
    /\ svc_stage = "join"
    /\ joining' = 0
    /\ AfterStop
    /\ svc_cmd' = "none"
    /\ UNCHANGED <<overflow_checks, laterVars, internVars, parseVars, fileVars, bridgeVars, chanVars, cmd_queue, cmds_sent,
                   log_read>>

\* handle.await returned: the task is over; session = None and on
StopJoin ==
    /\ svc_stage = "join"
    /\ tasks[joining].status = "finished"
    /\ joining' = 0
    /\ AfterStop
    /\ svc_cmd' = "none"
    /\ UNCHANGED <<overflow_checks, laterVars, internVars, parseVars, fileVars, bridgeVars, chanVars, cmd_queue, cmds_sent,
                   log_read>>

\* the tail task reads one event: the session's state machine fires its
\* signals and the overlay handler forwards them.  A task being aborted runs on
\* until its next await.
TaskStep(t, ev) ==
    /\ tasks[t].status \in {"running", "aborting"}
    /\ log_read < MaxLogEvents
    /\ log_read' = log_read + 1
    /\ tasks' = [tasks EXCEPT ![t].combat = EncounterStep(tasks[t].combat, ev).combat]
    /\ update_chan' = handle_signals(update_chan, EncounterStep(tasks[t].combat, ev).signals)
    /\ UNCHANGED <<overflow_checks, laterVars, internVars, parseVars, fileVars, bridgeVars, cmd_queue, cmds_sent, svc_cmd,
                   svc_stage, joining, session, tail_handle, received>>

\* the abort takes effect at an await of the task
TaskCancelled(t) ==
    /\ tasks[t].status = "aborting"
    /\ tasks' = [tasks EXCEPT ![t].status = "finished"]
    /\ UNCHANGED <<overflow_checks, laterVars, internVars, parseVars, fileVars, bridgeVars, chanVars, cmd_queue, cmds_sent,
                   svc_cmd, svc_stage, joining, session, tail_handle, log_read>>

\* tail_log_file returned an error (the file could not be opened): the task
\* prints it and ends by itself
TaskFails(t) ==
    /\ tasks[t].status = "running"
    /\ tasks[t].combat = "Idle"
    /\ tasks' = [tasks EXCEPT ![t].status = "finished"]
    /\ UNCHANGED <<overflow_checks, laterVars, internVars, parseVars, fileVars, bridgeVars, chanVars, cmd_queue, cmds_sent,
                   svc_cmd, svc_stage, joining, session, tail_handle, log_read>>

\* the consumer of the overlay update channel: rx.recv().await returned
ConsumerRecv ==
    /\ update_chan # <<>>
    /\ received' = Append(received, Head(update_chan))
    /\ update_chan' = Tail(update_chan)
    /\ UNCHANGED <<overflow_checks, laterVars, internVars, parseVars, fileVars, bridgeVars, svcVars>>

NextService ==
    \/ \E cmd \in ServiceCommands : ClientSend(cmd)
    \/ DropHandles
    \/ SvcRecv
    \/ SvcRecvNone
    \/ StopNoTask
    \/ StopAbort
    \/ StopJoin
    \/ \E t \in 1..Len(tasks), ev \in LogEvents : TaskStep(t, ev)
    \/ \E t \in 1..Len(tasks) : TaskCancelled(t)
    \/ \E t \in 1..Len(tasks) : TaskFails(t)
    \/ ConsumerRecv

SpecService == InitService /\ [][NextService]_vars

\* CombatService::is_tailing
is_tailing == session # 0

(***************************************************************************)
(* Claims about the service's lifecycle updates                            *)
(***************************************************************************)
\* number of CombatStarted among received[a..b]
StartedBetween(a, b) ==
    Cardinality({j \in a..b : received[j].kind = "CombatStarted"})

\* index of the CombatEnded before position i, 0 if there is none
PreviousEnded(i) ==
    IF \E j \in 1..(i - 1) : received[j].kind = "CombatEnded"
    THEN CHOOSE j \in 1..(i - 1) :
            /\ received[j].kind = "CombatEnded"
            /\ \A k \in (j + 1)..(i - 1) : received[k].kind # "CombatEnded"
    ELSE 0

\* C6: every CombatEnded the consumer receives is preceded by exactly one
\* CombatStarted received since the previous CombatEnded.
C6_ReceivedLifecycleWellFormed ==
    \A i \in 1..Len(received) :
        received[i].kind = "CombatEnded" => StartedBetween(PreviousEnded(i) + 1, i - 1) = 1

\* C7: when the service discards a session (StopTailing, Shutdown or a
\* StartTailing that replaces it), the session's encounter has been sealed: its
\* state machine is not left InCombat, every CombatStarted has its CombatEnded.
C7_EncounterSealedOnStop ==
    [][(session # 0 /\ session' # session) => tasks'[session].combat = "Idle"]_vars

\* the lifecycle updates a list of signals gives rise to, in firing order
RECURSIVE FiredUpdates(_)
FiredUpdates(signals) ==
    IF signals = <<>> THEN <<>>
    ELSE IF Head(signals) \in {"CombatStarted", "CombatEnded"}
    THEN <<Update(Head(signals), 0)>> \o FiredUpdates(Tail(signals))
    ELSE FiredUpdates(Tail(signals))

\* the newest n elements of q, in their order
KeepNewest(q, n) ==
    IF Len(q) <= n THEN q ELSE SubSeq(q, Len(q) - n + 1, Len(q))

\* C11: when the tail task fires updates, the channel afterwards holds the
\* newest ones that fit, in firing order: what is lost for lack of capacity is
\* older than everything kept, and the newest update fired is always kept.
C11_OldestDroppedFirst ==
    [][\A t \in 1..Len(tasks), ev \in LogEvents :
          TaskStep(t, ev) =>
             update_chan' = KeepNewest(update_chan \o FiredUpdates(EncounterStep(tasks[t].combat, ev).signals), UpdateCap)]_vars

\* the scheduling of the runtime: the service loop runs when it can, and an
\* aborted task is cancelled at its next await
SpecServiceFair ==
    /\ SpecService
    /\ WF_vars(SvcRecv) /\ WF_vars(SvcRecvNone)
    /\ WF_vars(StopNoTask) /\ WF_vars(StopAbort) /\ WF_vars(StopJoin)
    /\ \A t \in 1..MaxCmds : WF_vars(t <= Len(tasks) /\ TaskCancelled(t))

\* the tail tasks that have not ended
AliveTasks == {t \in 1..Len(tasks) : tasks[t].status \in {"running", "aborting"}}

\* C26: at most one tail task is alive at any time, and an alive task is the
\* one the service holds or is awaiting in stop_tailing: once stop_tailing has
\* returned, the stopped task is over and sends nothing more.
C26_AtMostOneTailTask ==
    /\ Cardinality(AliveTasks) <= 1
    /\ \A t \in AliveTasks : t = tail_handle \/ t = joining

\* a second tail task is running after the first was stopped and had sent
\* an update
C26_Witness ==
    /\ Len(tasks) = 2
    /\ tasks[1].status = "finished" /\ tasks[1].combat = "InCombat"
    /\ tasks[2].status = "running" /\ tail_handle = 2
    /\ Len(received) > 0

\* C27: a Shutdown stops the active tail and ends run; after run has returned
\* no queued command is executed and a send returns an error; run, once it
\* has taken a Shutdown or once every handle is dropped, does return.
C27_ShutdownEndsRun ==
    /\ [][/\ (svc_cmd = "Shutdown" /\ svc_cmd' = "none") =>
                /\ svc_stage' = "returned"
                /\ session' = 0 /\ tail_handle' = 0
                /\ \A t \in 1..Len(tasks') : tasks'[t].status = "finished"
          /\ svc_stage = "returned" =>
                /\ svc_stage' = "returned" /\ svc_cmd' = "none"
                /\ cmd_queue' = cmd_queue /\ session' = session
                /\ Len(tasks') = Len(tasks)
          /\ (svc_stage = "returned" /\ cmds_sent' # cmds_sent) => send_result' = "Err"]_vars
    /\ (svc_cmd = "Shutdown") ~> (svc_stage = "returned")
    /\ (~handles_alive) ~> (svc_stage = "returned")

\* run has returned on a Shutdown that stopped a tail in combat, and a later
\* send was refused
C27_Witness ==
    /\ svc_stage = "returned"
    /\ Len(tasks) = 1 /\ tasks[1].status = "finished" /\ tasks[1].combat = "InCombat"
    /\ session = 0
    /\ cmds_sent = MaxCmds
    /\ send_result = "Err"

\* C28: between commands, is_tailing is true exactly when a tail task of the
\* current session is alive, also after the task has ended by itself.
C28_IsTailingIffTaskAlive ==
    svc_stage = "recv" =>
        (is_tailing <=> (tail_handle # 0 /\ tasks[tail_handle].status = "running"))

\* The service with commands already waiting when the loop first runs: the
\* handle was used before run was polled, and the queue is full or close to it.
InitQueue ==
    /\ HandleIdle /\ MetricIdle /\ WatchIdle /\ UiIdle /\ ExtraIdle
    /\ InternIdle
    /\ overflow_checks = FALSE
    /\ ParseIdle /\ FileIdle
    /\ \E n \in (CmdCapacity - MaxCmds)..CmdCapacity :
          cmd_queue = [i \in 1..n |-> "RefreshIndex"]
    /\ cmds_sent = 0
    /\ svc_cmd = "none"
    /\ svc_stage = "recv"
    /\ joining = 0
    /\ session = 0
    /\ tail_handle = 0
    /\ tasks = <<>>
    /\ log_read = 0
    /\ update_chan = <<>>
    /\ received = <<>>
    /\ BridgeIdle

SpecQueue == InitQueue /\ [][NextService]_vars

\* C23: commands go through a queue of capacity 32.  While the loop is running
\* a send never loses its command: it completes by appending it behind those
\* queued, and only when fewer than 32 are queued.  The loop takes the oldest
\* command, and only when it has finished the one before.
C23_CommandsQueuedInOrder ==
    [][/\ Len(cmd_queue') <= CmdCapacity
       /\ (cmds_sent' # cmds_sent /\ ~ReceiverDropped) =>
             /\ Len(cmd_queue) < CmdCapacity
             /\ \E cmd \in ServiceCommands : cmd_queue' = Append(cmd_queue, cmd)
             /\ send_result' = "Ok"
       /\ (cmd_queue' # cmd_queue /\ cmds_sent' = cmds_sent) =>
             /\ svc_stage = "recv" /\ svc_cmd = "none"
             /\ cmd_queue' = Tail(cmd_queue)
             /\ \/ Head(cmd_queue) = "RefreshIndex" /\ svc_stage' = "recv"
                \/ svc_cmd' = Head(cmd_queue) /\ svc_stage' = "stop"]_vars

\* a send has filled the queue to its capacity, behind commands the loop has
\* yet to take: the next sender has to wait
C23_Witness ==
    /\ Len(cmd_queue) = CmdCapacity
    /\ cmds_sent > 0 /\ cmds_sent < MaxCmds
    /\ send_result = "Ok"
    /\ cmd_queue[CmdCapacity] = "StopTailing"
    /\ svc_stage = "recv"
    /\ handles_alive

(***************************************************************************)
(* The overlay bridge: src/app/src-tauri/src/bridge.rs                     *)
(***************************************************************************)
\* MetricType::all(), in order: two of the eight metric kinds, which the bridge
\* treats alike
MetricTypeAll == <<"Dps", "Hps">>
MetricKinds == {MetricTypeAll[i] : i \in 1..Len(MetricTypeAll)}
OverlayKinds == MetricKinds \cup {"Personal"}

UpdateKinds == {"MetricsUpdated", "PersonalStatsUpdated", "CombatStarted", "CombatEnded"}
LifecycleKinds == {"CombatStarted", "CombatEnded"}

\* OverlayCommand::UpdateData(OverlayData::Metrics(entries)) for the overlay of
\* one kind, entries being create_all_entries(&metrics)[kind], and
\* OverlayCommand::UpdateData(OverlayData::Personal(stats))
UpdateData(kind, update) ==
    [cmd |-> "UpdateData",
     data |-> IF kind = "Personal" THEN "Personal" ELSE "Metrics",
     kind |-> kind, snapshot |-> update.data]

\* the running metric overlays and their channels, in MetricType::all() order
overlay_txs(run) == SelectSeq(MetricTypeAll, LAMBDA k : k \in run)

InitBridge ==
    /\ HandleIdle /\ MetricIdle /\ WatchIdle /\ UiIdle /\ ExtraIdle
    /\ InternIdle
    /\ overflow_checks = FALSE
    /\ ParseIdle /\ FileIdle /\ ServiceIdle
    /\ update_chan = <<>>
    /\ received = <<>>
    /\ produced = 0
    /\ running \in SUBSET OverlayKinds
    /\ ov_chan = [k \in OverlayKinds |-> <<>>]
    /\ delivered = [k \in OverlayKinds |-> <<>>]
    /\ bridge_pc = "idle"
    /\ bridge_todo = <<>>
    /\ bridge_msg = NoUpdate

\* the service side puts an update into the bridge's channel
ServiceSend(kind) ==
    /\ produced < MaxUpdates
    /\ Len(update_chan) < UpdateCap
    /\ produced' = produced + 1
    /\ update_chan' = Append(update_chan,
                             Update(kind, IF kind \in LifecycleKinds THEN 0
                                          ELSE produced + 1))
    /\ UNCHANGED <<overflow_checks, laterVars, internVars, parseVars, fileVars, svcVars, received, running,
                   ov_chan, delivered, bridge_pc, bridge_todo, bridge_msg>>

\* rx.recv() returned MetricsUpdated: entries for all kinds, then the channels
\* of the running metric overlays are collected under the registry lock
BridgeMetrics ==
    /\ bridge_pc = "idle"
    /\ update_chan # <<>>
    /\ Head(update_chan).kind = "MetricsUpdated"
    /\ update_chan' = Tail(update_chan)
    /\ received' = Append(received, Head(update_chan))
    /\ bridge_msg' = Head(update_chan)
    /\ bridge_todo' = overlay_txs(running)
    /\ bridge_pc' = IF overlay_txs(running) = <<>> THEN "idle" ELSE "send"
    /\ UNCHANGED <<overflow_checks, laterVars, internVars, parseVars, fileVars, svcVars, produced, running,
                   ov_chan, delivered>>

\* rx.recv() returned PersonalStatsUpdated: the personal overlay's channel, if
\* it is running
BridgePersonal ==
    /\ bridge_pc = "idle"
    /\ update_chan # <<>>
    /\ Head(update_chan).kind = "PersonalStatsUpdated"
    /\ update_chan' = Tail(update_chan)
    /\ received' = Append(received, Head(update_chan))
    /\ bridge_msg' = Head(update_chan)
    /\ bridge_todo' = IF "Personal" \in running THEN <<"Personal">> ELSE <<>>
    /\ bridge_pc' = IF "Personal" \in running THEN "send" ELSE "idle"
    /\ UNCHANGED <<overflow_checks, laterVars, internVars, parseVars, fileVars, svcVars, produced, running,
                   ov_chan, delivered>>

\* the lifecycle arms, mutated to pass the update on to every running overlay
\* whose channel has room
BridgeLifecycleForwards ==
    /\ bridge_pc = "idle"
    /\ update_chan # <<>>
    /\ Head(update_chan).kind \in LifecycleKinds
    /\ update_chan' = Tail(update_chan)
    /\ received' = Append(received, Head(update_chan))
    /\ bridge_msg' = Head(update_chan)
    /\ ov_chan' = [k \in OverlayKinds |->
                     IF k \in running /\ Len(ov_chan[k]) < OverlayCap
                     THEN Append(ov_chan[k], [cmd |-> Head(update_chan).kind])
                     ELSE ov_chan[k]]
    /\ UNCHANGED <<overflow_checks, laterVars, internVars, parseVars, fileVars, svcVars, produced, running,
                   delivered, bridge_pc, bridge_todo>>

\* rx.recv() returned CombatStarted or CombatEnded: both arms are empty
BridgeLifecycle ==
    /\ bridge_pc = "idle"
    /\ update_chan # <<>>
    /\ Head(update_chan).kind \in LifecycleKinds
    /\ update_chan' = Tail(update_chan)
    /\ received' = Append(received, Head(update_chan))
    /\ bridge_msg' = Head(update_chan)
    /\ UNCHANGED <<overflow_checks, laterVars, internVars, parseVars, fileVars, svcVars, produced, running,
                   ov_chan, delivered, bridge_pc, bridge_todo>>

\* tx.send(OverlayCommand::UpdateData(..)).await completes: the bounded channel
\* has room.  While it is full the bridge stays in the send.
BridgeSend ==
    /\ bridge_pc = "send"
    /\ Len(ov_chan[Head(bridge_todo)]) < OverlayCap
    /\ ov_chan' = [ov_chan EXCEPT ![Head(bridge_todo)] =
                      Append(@, UpdateData(Head(bridge_todo), bridge_msg))]
    /\ bridge_todo' = Tail(bridge_todo)
    /\ bridge_pc' = IF Tail(bridge_todo) = <<>> THEN "idle" ELSE "send"
    /\ UNCHANGED <<overflow_checks, laterVars, internVars, parseVars, fileVars, svcVars, chanVars, produced,
                   running, delivered, bridge_msg>>

\* the overlay thread of one kind takes the next command from its channel
OverlayRecv(k) ==
    /\ k \in running
    /\ ov_chan[k] # <<>>
    /\ delivered' = [delivered EXCEPT ![k] = Append(@, Head(ov_chan[k]))]
    /\ ov_chan' = [ov_chan EXCEPT ![k] = Tail(@)]
    /\ UNCHANGED <<overflow_checks, laterVars, internVars, parseVars, fileVars, svcVars, chanVars, produced,
                   running, bridge_pc, bridge_todo, bridge_msg>>

BridgeStep == BridgeMetrics \/ BridgePersonal \/ BridgeLifecycle \/ BridgeSend

NextBridge ==
    \/ \E kind \in UpdateKinds : ServiceSend(kind)
    \/ BridgeMetrics
    \/ BridgePersonal
    \/ BridgeLifecycle
    \/ BridgeSend
    \/ \E k \in OverlayKinds : OverlayRecv(k)

SpecBridge == InitBridge /\ [][NextBridge]_vars

\* The runtime keeps polling the bridge task and the personal overlay's thread
\* keeps draining its channel; nothing makes a metric overlay drain its own.
SpecBridgeFair ==
    InitBridge /\ [][NextBridge]_vars
    /\ WF_vars(BridgeStep) /\ WF_vars(OverlayRecv("Personal"))

(***************************************************************************)
(* Claims about the overlay bridge                                         *)
(***************************************************************************)
\* the bridge is inside tx.send(..).await on a metric overlay channel that is full
WaitingOnMetricChannel ==
    /\ bridge_pc = "send"
    /\ Head(bridge_todo) \in MetricKinds
    /\ Len(ov_chan[Head(bridge_todo)]) >= OverlayCap

\* C8: the bridge never waits on a full metric overlay channel (it drops the
\* update and goes on).
C8_NeverWaitsOnMetricChannel == ~WaitingOnMetricChannel

\* PersonalStatsUpdated number n has reached the bridge: it is in the bridge's
\* receiver or has been taken from it
PersonalAtBridge(n) ==
    \/ \E i \in 1..Len(update_chan) : update_chan[i] = Update("PersonalStatsUpdated", n)
    \/ \E i \in 1..Len(received) : received[i] = Update("PersonalStatsUpdated", n)

PersonalDelivered(n) ==
    \E i \in 1..Len(delivered["Personal"]) : delivered["Personal"][i].snapshot = n

\* C9: with the personal overlay running and draining its channel, every
\* PersonalStatsUpdated that reaches the bridge is eventually delivered to the
\* personal overlay, whatever the state of the metric overlays' channels.
C9_PersonalEventuallyDelivered ==
    \A n \in 1..MaxUpdates :
        [](("Personal" \in running /\ PersonalAtBridge(n)) => <>PersonalDelivered(n))

\* the lifecycle updates the bridge has received, and the commands other than
\* UpdateData passed to the overlay of kind k, in order
LifecycleReceived == SelectSeq(received, LAMBDA u : u.kind \in LifecycleKinds)
PassedOn(k) == SelectSeq(delivered[k] \o ov_chan[k], LAMBDA c : c.cmd # "UpdateData")

InternStrings == {"Alice", "T7-O1", ""}

NoKey == -1

\* a thread outside intern and resolve
ThreadIdle == [pc |-> "idle", arg |-> "", key |-> NoKey, via |-> "none"]

\* the Vacant arm of get_or_intern, mutated to leave the key counter where it is
store_str_same_key(r, s) ==
    [rodeo |-> [map |-> (s :> r.key) @@ r.map,
                strings |-> (r.key :> s) @@ r.strings,
                key |-> r.key],
     key |-> r.key]

\* the Vacant arm of ThreadedRodeo::get_or_intern: the string is stored under
\* the next key of the counter (fetch_add), in both directions
store_str(r, s) ==
    [rodeo |-> [map |-> (s :> r.key) @@ r.map,
                strings |-> (r.key :> s) @@ r.strings,
                key |-> r.key + 1],
     key |-> r.key]

\* the slow path of get_or_intern, mutated to store without looking again
get_or_intern_locked_no_recheck(r, s) ==
    store_str(r, s) @@ [via |-> "vacant"]

\* the slow path of ThreadedRodeo::get_or_intern, run while holding the write
\* lock of the string's shard: the entry is looked up again and only a vacant
\* one is filled
get_or_intern_locked(r, s) ==
    IF s \in DOMAIN r.map
    THEN [rodeo |-> r, key |-> r.map[s], via |-> "occupied"]
    ELSE store_str(r, s) @@ [via |-> "vacant"]

\* resolve: the string stored under the key
resolve(r, key) == r.strings[key]

InitIntern ==
    /\ HandleIdle /\ MetricIdle /\ WatchIdle /\ UiIdle /\ ExtraIdle
    /\ overflow_checks = FALSE
    /\ ParseIdle /\ FileIdle /\ ServiceIdle /\ ChanIdle /\ BridgeIdle
    /\ interner_init = FALSE
    /\ rodeo = EmptyRodeo
    /\ threads = [t \in 1..MaxThreads |-> ThreadIdle]
    /\ intern_calls = 0
    /\ returned = {}
    /\ resolved = {}

\* a thread calls intern(s)
CallIntern(t, s) ==
    /\ threads[t].pc = "idle"
    /\ intern_calls < MaxInternCalls
    /\ intern_calls' = intern_calls + 1
    /\ threads' = [threads EXCEPT ![t] = [pc |-> "interner", arg |-> s, key |-> NoKey, via |-> "none"]]
    /\ UNCHANGED <<overflow_checks, laterVars, parseVars, fileVars, svcVars, chanVars, bridgeVars,
                   interner_init, rodeo, returned, resolved>>

\* interner(): OnceLock::get_or_init runs ThreadedRodeo::default once, however
\* many threads call it
GetInterner(t) ==
    /\ threads[t].pc = "interner"
    /\ interner_init' = TRUE
    /\ rodeo' = IF interner_init THEN rodeo ELSE EmptyRodeo
    /\ threads' = [threads EXCEPT ![t].pc = "fast"]
    /\ UNCHANGED <<overflow_checks, laterVars, parseVars, fileVars, svcVars, chanVars, bridgeVars,
                   intern_calls, returned, resolved>>

\* get_or_intern, fast path: a read of the map without the write lock
FastPath(t) ==
    /\ threads[t].pc = "fast"
    /\ IF threads[t].arg \in DOMAIN rodeo.map
       THEN /\ threads' = [threads EXCEPT ![t].pc = "idle",
                                          ![t].key = rodeo.map[threads[t].arg],
                                          ![t].via = "fast"]
            /\ returned' = returned \cup {<<threads[t].arg, rodeo.map[threads[t].arg]>>}
       ELSE /\ threads' = [threads EXCEPT ![t].pc = "slow"]
            /\ UNCHANGED returned
    /\ UNCHANGED <<overflow_checks, laterVars, parseVars, fileVars, svcVars, chanVars, bridgeVars,
                   interner_init, rodeo, intern_calls, resolved>>

\* get_or_intern, slow path, under the shard's write lock
SlowPath(t) ==
    /\ threads[t].pc = "slow"
    /\ rodeo' = get_or_intern_locked(rodeo, threads[t].arg).rodeo
    /\ threads' = [threads EXCEPT ![t].pc = "idle",
                                  ![t].key = get_or_intern_locked(rodeo, threads[t].arg).key,
                                  ![t].via = get_or_intern_locked(rodeo, threads[t].arg).via]
    /\ returned' = returned \cup {<<threads[t].arg, get_or_intern_locked(rodeo, threads[t].arg).key>>}
    /\ UNCHANGED <<overflow_checks, laterVars, parseVars, fileVars, svcVars, chanVars, bridgeVars,
                   interner_init, intern_calls, resolved>>

\* a thread calls resolve with a key intern has returned
Resolve(t, key) ==
    /\ threads[t].pc = "idle"
    /\ intern_calls < MaxInternCalls
    /\ \E p \in returned : p[2] = key
    /\ intern_calls' = intern_calls + 1
    /\ resolved' = resolved \cup {<<key, resolve(rodeo, key)>>}
    /\ UNCHANGED <<overflow_checks, laterVars, parseVars, fileVars, svcVars, chanVars, bridgeVars,
                   interner_init, rodeo, threads, returned>>

NextIntern ==
    \/ \E t \in 1..MaxThreads, s \in InternStrings : CallIntern(t, s)
    \/ \E t \in 1..MaxThreads : GetInterner(t)
    \/ \E t \in 1..MaxThreads : FastPath(t)
    \/ \E t \in 1..MaxThreads : SlowPath(t)
    \/ \E t \in 1..MaxThreads, key \in 0..MaxInternCalls : Resolve(t, key)

SpecIntern == InitIntern /\ [][NextIntern]_vars

(***************************************************************************)
(* Claims about the interner                                               *)
(***************************************************************************)
\* C12: under every interleaving of intern calls, two calls with equal strings
\* return the same key, also when both race on a string not yet stored, and
\* no string is stored under two keys.
C12_InternIdempotent ==
    /\ \A p \in returned, q \in returned : p[1] = q[1] => p[2] = q[2]
    /\ \A j \in DOMAIN rodeo.strings, k \in DOMAIN rodeo.strings :
          rodeo.strings[j] = rodeo.strings[k] => j = k

\* two calls raced on a string not yet stored: both missed on the fast path,
\* one stored it and the other found the entry occupied under the lock
C12_Witness ==
    \E t \in 1..MaxThreads, u \in 1..MaxThreads :
        /\ t # u
        /\ threads[t].pc = "idle" /\ threads[t].via = "occupied"
        /\ threads[u].pc = "idle" /\ threads[u].via = "vacant"
        /\ threads[t].arg = threads[u].arg
        /\ threads[t].key = threads[u].key

\* C13: every key intern has returned resolves to the string it was returned
\* for, now and in every resolve made so far, and distinct strings have
\* distinct keys.
C13_RoundTripNoCollision ==
    /\ \A p \in returned : resolve(rodeo, p[2]) = p[1]
    /\ \A p \in returned, q \in returned : p[1] # q[1] => p[2] # q[2]
    /\ \A p \in returned, q \in resolved : p[2] = q[1] => p[1] = q[2]

\* two distinct strings are interned and the key of the first has been
\* resolved after the second was stored
C13_Witness ==
    \E p \in returned, q \in returned :
        /\ p[1] # q[1]
        /\ p[2] < q[2]
        /\ <<p[2], p[1]>> \in resolved
        /\ rodeo.key = 2
        /\ intern_calls = MaxInternCalls

(***************************************************************************)
(* Overlay entries: src/app/src-tauri/src/overlay/metrics.rs               *)
(***************************************************************************)
\* the variants of MetricType, one per arm of the match
MetricTypeVariants == <<"Dps", "EDps", "Hps", "EHps", "Tps", "Dtps", "EDtps", "Abs">>
MetricTypeSet == {MetricTypeVariants[j] : j \in 1..Len(MetricTypeVariants)}

\* the field of PlayerMetrics a kind reads: m.dps, m.edps, ...
MetricField(kind, m) ==
    CASE kind = "Dps" -> m.dps
      [] kind = "EDps" -> m.edps
      [] kind = "Hps" -> m.hps
      [] kind = "EHps" -> m.ehps
      [] kind = "Tps" -> m.tps
      [] kind = "Dtps" -> m.dtps
      [] kind = "EDtps" -> m.edtps
      [] kind = "Abs" -> m.abs

\* overlay_type.bar_color(): a colour per kind
bar_color(kind) == <<"bar", kind>>

\* metrics.iter().map(..).max().unwrap_or(0)
RECURSIVE IterMax(_)
IterMax(vs) ==
    IF vs = <<>> THEN 0
    ELSE IF Len(vs) = 1 THEN vs[1]
    ELSE IF vs[1] > IterMax(Tail(vs)) THEN vs[1] ELSE IterMax(Tail(vs))

\* sort_by, mutated to compare a.1 with b.1: lowest first
RECURSIVE sort_by_value_asc(_)
sort_by_value_asc(values) ==
    IF values = <<>> THEN <<>>
    ELSE LET rest == sort_by_value_asc(SubSeq(values, 1, Len(values) - 1))
             x == values[Len(values)]
             before == SelectSeq(rest, LAMBDA y : y[2] <= x[2])
             after == SelectSeq(rest, LAMBDA y : y[2] > x[2])
         IN  before \o <<x>> \o after

\* values.sort_by(|a, b| b.1.cmp(&a.1)): highest first, and stable, so equal
\* values keep the order of the snapshot
RECURSIVE sort_by_value_desc(_)
sort_by_value_desc(values) ==
    IF values = <<>> THEN <<>>
    ELSE LET rest == sort_by_value_desc(SubSeq(values, 1, Len(values) - 1))
             x == values[Len(values)]
             before == SelectSeq(rest, LAMBDA y : y[2] >= x[2])
             after == SelectSeq(rest, LAMBDA y : y[2] < x[2])
         IN  before \o <<x>> \o after

\* MeterEntry::new(&name, value, max_value).with_color(color)
MeterEntry(name, value, max_value, color) ==
    [name |-> name, value |-> value, max_value |-> max_value, color |-> color]

create_entries_for_type(kind, snapshot) ==
    LET color == bar_color(kind)
        max_value == IterMax([i \in 1..Len(snapshot) |-> MetricField(kind, snapshot[i])])
        values == sort_by_value_desc([i \in 1..Len(snapshot) |->
                                        <<snapshot[i].name, MetricField(kind, snapshot[i])>>])
    IN  [i \in 1..Len(values) |-> MeterEntry(values[i][1], values[i][2], max_value, color)]

\* a HashMap with an entry list for each kind of MetricType::all()
create_all_entries(snapshot) ==
    [kind \in MetricTypeSet |-> create_entries_for_type(kind, snapshot)]

\* index of a kind among the variants
KindIndex(kind) == CHOOSE j \in 1..Len(MetricTypeVariants) : MetricTypeVariants[j] = kind

\* the i-th player of a snapshot: the value v for the kind looked at, and
\* values that differ from player to player for the other kinds
Player(i, kind, v) ==
    LET f(j) == (v + (j + Len(MetricTypeVariants) - KindIndex(kind)) * i) % (MaxMetricValue + 1)
    IN  [name |-> <<"P", i>>, dps |-> f(1), edps |-> f(2), hps |-> f(3), ehps |-> f(4),
         tps |-> f(5), dtps |-> f(6), edtps |-> f(7), abs |-> f(8)]

\* snapshots of 0 to MaxPlayers players
Snapshots(kind) ==
    UNION {{[i \in 1..n |-> Player(i, kind, vs[i])] : vs \in [1..n -> 0..MaxMetricValue]} :
             n \in 0..MaxPlayers}

InitMetrics ==
    /\ overflow_checks = FALSE
    /\ ParseIdle /\ FileIdle /\ ServiceIdle /\ ChanIdle /\ BridgeIdle /\ InternIdle
    /\ HandleIdle /\ WatchIdle /\ UiIdle /\ ExtraIdle
    /\ overlay_type \in MetricTypeSet
    /\ metrics \in Snapshots(overlay_type)
    /\ entries = Uncomputed
    /\ all_entries = Uncomputed

CreateEntriesForType ==
    /\ overlay_type # "none"
    /\ entries = Uncomputed
    /\ entries' = Computed(create_entries_for_type(overlay_type, metrics))
    /\ UNCHANGED <<overflow_checks, parseVars, fileVars, svcVars, chanVars, bridgeVars,
                   internVars, extraVars, handleVars, watchVars, uiVars, metrics, overlay_type,
                   all_entries>>

CreateAllEntries ==
    /\ overlay_type # "none"
    /\ all_entries = Uncomputed
    /\ all_entries' = Computed(create_all_entries(metrics))
    /\ UNCHANGED <<overflow_checks, parseVars, fileVars, svcVars, chanVars, bridgeVars,
                   internVars, extraVars, handleVars, watchVars, uiVars, metrics, overlay_type, entries>>

NextMetrics == CreateEntriesForType \/ CreateAllEntries

SpecMetrics == InitMetrics /\ [][NextMetrics]_vars

(***************************************************************************)
(* Claims about the overlay entries                                        *)
(***************************************************************************)
\* the largest value of a kind in the snapshot, at least 1
LargestOrOne(kind) ==
    IF \E i \in 1..Len(metrics) : MetricField(kind, metrics[i]) > 1
    THEN CHOOSE v \in {MetricField(kind, metrics[i]) : i \in 1..Len(metrics)} :
            \A i \in 1..Len(metrics) : MetricField(kind, metrics[i]) <= v
    ELSE 1

\* C21: every entry create_entries_for_type produces carries max_value =
\* max(1, largest value of the kind in the snapshot): never less than 1.
C21_MaxValueAtLeastOne ==
    entries # Uncomputed =>
        \A i \in 1..Len(entries.value) :
            entries.value[i].max_value = LargestOrOne(overlay_type)

\* a list of entries is the snapshot's (name, value of kind) pairs, one entry
\* per player, highest value first
SortedPermutation(list, kind) ==
    /\ Len(list) = Len(metrics)
    /\ \A i \in 1..Len(metrics) :
          Cardinality({j \in 1..Len(list) :
                          /\ list[j].name = metrics[i].name
                          /\ list[j].value = MetricField(kind, metrics[i])}) = 1
    /\ \A j \in 1..(Len(list) - 1) : list[j].value >= list[j + 1].value

\* C22: the list create_entries_for_type produces is a permutation of the
\* snapshot's (name, value) pairs of the kind, sorted by value in
\* non-increasing order, and create_all_entries holds such a list for every kind.
C22_SortedPermutationPerKind ==
    /\ entries # Uncomputed => SortedPermutation(entries.value, overlay_type)
    /\ all_entries # Uncomputed =>
          /\ DOMAIN all_entries.value = MetricTypeSet
          /\ \A kind \in MetricTypeSet : SortedPermutation(all_entries.value[kind], kind)

\* both functions have run on a snapshot of MaxPlayers players that was not in
\* order: the first entry is not the first player
C22_Witness ==
    /\ entries # Uncomputed /\ all_entries # Uncomputed
    /\ Len(metrics) = MaxPlayers
    /\ entries.value[1].name # metrics[1].name
    /\ entries.value[1].value > entries.value[Len(metrics)].value

(***************************************************************************)
(* The directory watcher: src/core/src/context/watcher.rs                  *)
(***************************************************************************)
\* mpsc::channel(100) of notify::Result<Event>
WatchCapacity == 100

\* str::starts_with and str::ends_with
starts_with(n, p) == Len(n) >= Len(p) /\ SubSeq(n, 1, Len(p)) = p
ends_with(n, p) == Len(n) >= Len(p) /\ SubSeq(n, Len(n) - Len(p) + 1, Len(n)) = p

\* a path: its file name, which may be absent (a path ending in "..") or not
\* valid UTF-8
PathOf(name) == [file_name |-> "Some", utf8 |-> TRUE, name |-> name]
NoFileName == [file_name |-> "None", utf8 |-> TRUE, name |-> <<>>]
NotUtf8 == [file_name |-> "Some", utf8 |-> FALSE, name |-> <<"c","o","m","b","a","t","_","?",".","t","x","t">>]

\* is_combat_log, mutated to look at the extension only
is_combat_log_by_extension(path) ==
    IF path.file_name = "None" THEN FALSE
    ELSE IF ~path.utf8 THEN FALSE
    ELSE ends_with(path.name, <<".","t","x","t">>)

\* is_combat_log: file_name().and_then(to_str).map(..).unwrap_or(false)
is_combat_log(path) ==
    IF path.file_name = "None" THEN FALSE
    ELSE IF ~path.utf8 THEN FALSE
    ELSE /\ starts_with(path.name, <<"c","o","m","b","a","t","_">>)
         /\ ends_with(path.name, <<".","t","x","t">>)

\* for path in event.paths { if is_combat_log(&path) { return Some(..) } }
RECURSIVE FirstCombatLog(_)
FirstCombatLog(paths) ==
    IF paths = <<>> THEN None
    ELSE IF is_combat_log(Head(paths)) THEN [tag |-> "Some", path |-> Head(paths)]
    ELSE FirstCombatLog(Tail(paths))

DirectoryEvent(variant, path) == [tag |-> "Some", variant |-> variant, path |-> path]

\* DirectoryWatcher::process_event
process_event(event) ==
    IF event.kind \in {"Create", "Modify", "Remove"}
    THEN IF FirstCombatLog(event.paths) = None THEN None
         ELSE DirectoryEvent(CASE event.kind = "Create" -> "NewFile"
                               [] event.kind = "Modify" -> "FileModified"
                               [] event.kind = "Remove" -> "FileRemoved",
                             FirstCombatLog(event.paths).path)
    ELSE None

\* the file names of the sample
CombatLog1 == PathOf(<<"c","o","m","b","a","t","_","1",".","t","x","t">>)
CombatLogBare == PathOf(<<"c","o","m","b","a","t","_",".","t","x","t">>)
OtherPaths ==
    {PathOf(<<"c","o","m","b","a","t",".","t","x","t">>),
     PathOf(<<"c","o","m","b","a","t","_","1",".","l","o","g">>),
     PathOf(<<"x","c","o","m","b","a","t","_","1",".","t","x","t">>),
     PathOf(<<"C","o","m","b","a","t","_","1",".","t","x","t">>),
     PathOf(<<"c","o","m","b","a","t","_","1",".","t","x","t","~">>),
     PathOf(<<"n","o","t","e","s",".","t","x","t">>),
     NoFileName, NotUtf8}
Notes == PathOf(<<"n","o","t","e","s",".","t","x","t">>)

\* the paths of one filesystem event
PathLists ==
    {<<>>, <<CombatLog1>>, <<CombatLogBare>>, <<Notes, CombatLog1>>, <<CombatLog1, Notes>>,
     <<Notes, NotUtf8>>, <<CombatLog1, CombatLogBare>>}
    \cup {<<p>> : p \in OtherPaths}

\* what the notify callback is given: an event of some kind, or an error
FsEvents ==
    {[ok |-> TRUE, kind |-> k, paths |-> ps] :
        k \in {"Create", "Modify", "Remove", "Access"}, ps \in PathLists}
    \cup {[ok |-> FALSE, kind |-> "Error", paths |-> <<>>]}

NoFsEvent == [ok |-> TRUE, kind |-> "none", paths |-> <<>>]

InitWatch ==
    /\ overflow_checks = FALSE
    /\ ParseIdle /\ FileIdle /\ ServiceIdle /\ ChanIdle /\ BridgeIdle /\ InternIdle
    /\ HandleIdle /\ MetricIdle /\ UiIdle /\ ExtraIdle
    /\ fs_events = 0
    /\ watch_chan = <<>>
    /\ watch_last = NoFsEvent
    /\ watch_out = None

\* the callback given to RecommendedWatcher::new: tx.try_send(res), the event
\* being dropped (and an error logged) when the channel is full
NotifyCallback(res) ==
    /\ fs_events < MaxFsEvents
    /\ fs_events' = fs_events + 1
    /\ watch_chan' = IF Len(watch_chan) < WatchCapacity THEN Append(watch_chan, res)
                     ELSE watch_chan
    /\ UNCHANGED <<overflow_checks, parseVars, fileVars, svcVars, chanVars, bridgeVars,
                   internVars, extraVars, handleVars, metricVars, uiVars, watch_last, watch_out>>

\* next_event: one turn of the loop around rx.recv().await.  It returns an
\* Error for an Err, the DirectoryEvent of process_event if there is one, and
\* otherwise goes back to rx.recv() without returning.
NextEvent ==
    /\ watch_chan # <<>>
    /\ watch_chan' = Tail(watch_chan)
    /\ watch_last' = Head(watch_chan)
    /\ watch_out' = IF Head(watch_chan).ok THEN process_event(Head(watch_chan))
                    ELSE DirectoryEvent("Error", NoFileName)
    /\ UNCHANGED <<overflow_checks, parseVars, fileVars, svcVars, chanVars, bridgeVars,
                   internVars, extraVars, handleVars, metricVars, uiVars, fs_events>>

NextWatch ==
    \/ \E res \in FsEvents : NotifyCallback(res)
    \/ NextEvent

SpecWatch == InitWatch /\ [][NextWatch]_vars

(***************************************************************************)
(* Claims about the directory watcher                                      *)
(***************************************************************************)
\* the paths of the sample whose file name is combat_*.txt
CombatLogPaths == {CombatLog1, CombatLogBare}

\* C24: next_event returns NewFile, FileModified or FileRemoved only for a
\* path of the event whose file name starts with "combat_" and ends with
\* ".txt"; an event whose paths are all other files gives no DirectoryEvent.
C24_OnlyCombatLogsReported ==
    /\ (watch_out # None /\ watch_out.variant \in {"NewFile", "FileModified", "FileRemoved"}) =>
          /\ watch_out.path \in CombatLogPaths
          /\ \E i \in 1..Len(watch_last.paths) : watch_last.paths[i] = watch_out.path
    /\ (watch_last.ok /\ \A i \in 1..Len(watch_last.paths) : watch_last.paths[i] \notin CombatLogPaths)
          => watch_out = None

\* a Create event naming another file and then a combat log has been turned
\* into NewFile of the combat log
C24_Witness ==
    /\ watch_last = [ok |-> TRUE, kind |-> "Create", paths |-> <<Notes, CombatLog1>>]
    /\ watch_out = DirectoryEvent("NewFile", CombatLog1)
    /\ fs_events = MaxFsEvents

(***************************************************************************)
(* The overlay commands of the tauri application:                          *)
(* src/app/src-tauri/src/lib.rs                                            *)
(***************************************************************************)
\* Result<_, String> of a command; Pending is a call that has not returned
Ok(cmd, v) == [cmd |-> cmd, tag |-> "Ok", value |-> v, err |-> ""]
Err(cmd, e) == [cmd |-> cmd, tag |-> "Err", value |-> <<>>, err |-> e]
Pending(cmd) == [cmd |-> cmd, tag |-> "Pending", value |-> <<>>, err |-> ""]

\* the Mutex<OverlayState> is free: no command is inside its critical section
MutexFree == ui_result.tag # "Pending"

\* enum OverlayCommand (UpdateEntries is sent by no command)
SetMoveMode(enabled) == [cmd |-> "SetMoveMode", enabled |-> enabled]
Shutdown == [cmd |-> "Shutdown", enabled |-> FALSE]

\* WaylandOverlay::new: the input region of the new surface, which is the
\* whole surface unless the configuration asks for click-through
new_input_region(click_through) == IF click_through THEN "empty" ELSE "infinite"

\* WaylandOverlay::set_click_through: a new region, to which the whole surface
\* is added when click-through is disabled
set_click_through(enabled) == IF ~enabled THEN "full" ELSE "empty"

\* a surface receives clicks where its input region is
captures_clicks(thread) == thread.input_region \in {"full", "infinite"}

\* the SetMoveMode arm, mutated to pass the flag unchanged
on_set_move_mode_same(enabled) == set_click_through(enabled)

\* OverlayCommand::SetMoveMode(enabled) => set_click_through(!enabled)
on_set_move_mode(enabled) == set_click_through(~enabled)

\* the thread of spawn_overlay before MeterOverlay::new has returned; taken
\* counts the commands rx.try_recv() has given it
NewThread == [stage |-> "creating", queue |-> <<>>, input_region |-> "none", taken |-> 0]

\* the Shutdown arm, mutated to go on with the loop
on_shutdown_ignored == "running"

\* OverlayCommand::Shutdown => return
on_shutdown == "ended"

Alive(thread) == thread.stage # "ended"

\* std::sync::mpsc::Sender::send: Err once the receiver is dropped, which is
\* when the thread's closure has returned
tx_send(thrs, tx, cmd) ==
    IF Alive(thrs[tx])
    THEN [ok |-> TRUE, threads |-> [thrs EXCEPT ![tx].queue = Append(@, cmd)]]
    ELSE [ok |-> FALSE, threads |-> thrs]

\* show_overlay, mutated to spawn without looking at is_running
show_overlay_always_spawns(state, thrs) ==
    [state |-> [state EXCEPT !.tx = Len(thrs) + 1, !.handle = Len(thrs) + 1,
                             !.is_running = TRUE],
     threads |-> Append(thrs, NewThread),
     result |-> Ok("show_overlay", <<TRUE>>)]

\* show_overlay
show_overlay(state, thrs) ==
    IF state.is_running
    THEN [state |-> state, threads |-> thrs, result |-> Ok("show_overlay", <<TRUE>>)]
    ELSE [state |-> [state EXCEPT !.tx = Len(thrs) + 1, !.handle = Len(thrs) + 1,
                                  !.is_running = TRUE],
          threads |-> Append(thrs, NewThread),
          result |-> Ok("show_overlay", <<TRUE>>)]

\* the end of hide_overlay, mutated to leave move_mode as it is
hide_overlay_end_keeps_move_mode(state) ==
    [state EXCEPT !.handle = 0, !.is_running = FALSE]

\* the end of hide_overlay, once handle.join() has returned
hide_overlay_end(state) ==
    [state EXCEPT !.handle = 0, !.is_running = FALSE, !.move_mode = FALSE]

InitUi ==
    /\ overflow_checks = FALSE
    /\ ParseIdle /\ FileIdle /\ ServiceIdle /\ ChanIdle /\ BridgeIdle /\ InternIdle
    /\ HandleIdle /\ MetricIdle /\ WatchIdle /\ ExtraIdle
    /\ ui_state = DefaultOverlayState
    /\ ui_threads = <<>>
    /\ ui_calls = 0
    /\ ui_result = Ok("none", <<>>)

UiUnchanged ==
    UNCHANGED <<overflow_checks, parseVars, fileVars, svcVars, chanVars, bridgeVars,
                internVars, extraVars, handleVars, metricVars, watchVars>>

ShowOverlay ==
    /\ MutexFree /\ ui_calls < MaxUiCalls
    /\ ui_calls' = ui_calls + 1
    /\ ui_state' = show_overlay(ui_state, ui_threads).state
    /\ ui_threads' = show_overlay(ui_state, ui_threads).threads
    /\ ui_result' = show_overlay(ui_state, ui_threads).result
    /\ UiUnchanged

\* hide_overlay up to handle.join(): the early return, or tx.take() and the
\* send of Shutdown, whose result is ignored, and handle.take()
HideOverlay ==
    /\ MutexFree /\ ui_calls < MaxUiCalls
    /\ ui_calls' = ui_calls + 1
    /\ IF ~ui_state.is_running
       THEN /\ ui_result' = Ok("hide_overlay", <<TRUE>>)
            /\ UNCHANGED <<ui_state, ui_threads>>
       ELSE /\ ui_threads' = IF ui_state.tx # 0
                             THEN tx_send(ui_threads, ui_state.tx, Shutdown).threads
                             ELSE ui_threads
            /\ ui_state' = [ui_state EXCEPT !.tx = 0]
            /\ ui_result' = Pending("hide_overlay")
    /\ UiUnchanged

\* handle.join() returns when the thread has ended; then the flags are reset
HideJoin ==
    /\ ui_result = Pending("hide_overlay")
    /\ ui_state.handle # 0 => ~Alive(ui_threads[ui_state.handle])
    /\ ui_state' = hide_overlay_end(ui_state)
    /\ ui_result' = Ok("hide_overlay", <<TRUE>>)
    /\ UNCHANGED <<ui_threads, ui_calls>>
    /\ UiUnchanged

ToggleMoveMode ==
    /\ MutexFree /\ ui_calls < MaxUiCalls
    /\ ui_calls' = ui_calls + 1
    /\ IF ~ui_state.is_running
       THEN /\ ui_result' = Err("toggle_move_mode", "Overlay not running")
            /\ UNCHANGED <<ui_state, ui_threads>>
       ELSE /\ ui_state' = [ui_state EXCEPT !.move_mode = ~ui_state.move_mode]
            /\ IF ui_state.tx # 0
               THEN LET r == tx_send(ui_threads, ui_state.tx, SetMoveMode(~ui_state.move_mode))
                    IN /\ ui_threads' = r.threads
                       /\ ui_result' = IF r.ok
                                       THEN Ok("toggle_move_mode", <<~ui_state.move_mode>>)
                                       ELSE Err("toggle_move_mode", "sending on a closed channel")
               ELSE /\ ui_threads' = ui_threads
                    /\ ui_result' = Ok("toggle_move_mode", <<~ui_state.move_mode>>)
    /\ UiUnchanged

GetOverlayStatus ==
    /\ MutexFree /\ ui_calls < MaxUiCalls
    /\ ui_calls' = ui_calls + 1
    /\ ui_result' = Ok("get_overlay_status", <<ui_state.is_running, ui_state.move_mode>>)
    /\ UNCHANGED <<ui_state, ui_threads>>
    /\ UiUnchanged

\* MeterOverlay::new(config, ..) with click_through: true succeeds
ThreadCreated(i) ==
    /\ ui_threads[i].stage = "creating"
    /\ ui_threads' = [ui_threads EXCEPT ![i].stage = "running",
                                       ![i].input_region = new_input_region(TRUE)]
    /\ UNCHANGED <<ui_state, ui_calls, ui_result>>
    /\ UiUnchanged

\* MeterOverlay::new fails: the thread prints the error and returns
ThreadCreateFails(i) ==
    /\ ui_threads[i].stage = "creating"
    /\ ui_threads' = [ui_threads EXCEPT ![i].stage = "ended"]
    /\ UNCHANGED <<ui_state, ui_calls, ui_result>>
    /\ UiUnchanged

\* while let Ok(cmd) = rx.try_recv() { match cmd { .. } }
ThreadRecv(i) ==
    /\ ui_threads[i].stage = "running"
    /\ ui_threads[i].queue # <<>>
    /\ LET cmd == Head(ui_threads[i].queue)
       IN ui_threads' =
            IF cmd.cmd = "SetMoveMode"
            THEN [ui_threads EXCEPT ![i].queue = Tail(@), ![i].taken = @ + 1,
                                    ![i].input_region = on_set_move_mode(cmd.enabled)]
            ELSE [ui_threads EXCEPT ![i].queue = Tail(@), ![i].taken = @ + 1,
                                    ![i].stage = on_shutdown]
    /\ UNCHANGED <<ui_state, ui_calls, ui_result>>
    /\ UiUnchanged

\* if !overlay.poll_events() { break; }: the connection failed or the
\* compositor closed the surface
ThreadPollFails(i) ==
    /\ ui_threads[i].stage = "running"
    /\ ui_threads' = [ui_threads EXCEPT ![i].stage = "ended"]
    /\ UNCHANGED <<ui_state, ui_calls, ui_result>>
    /\ UiUnchanged

NextUi ==
    \/ ShowOverlay
    \/ HideOverlay
    \/ HideJoin
    \/ ToggleMoveMode
    \/ GetOverlayStatus
    \/ \E i \in 1..Len(ui_threads) : ThreadCreated(i)
    \/ \E i \in 1..Len(ui_threads) : ThreadCreateFails(i)
    \/ \E i \in 1..Len(ui_threads) : ThreadRecv(i)
    \/ \E i \in 1..Len(ui_threads) : ThreadPollFails(i)

SpecUi == InitUi /\ [][NextUi]_vars

\* The overlay thread keeps running: MeterOverlay::new returns, and the loop
\* comes back to rx.try_recv() (poll_events does not block, render and the
\* sleep of 1 ms are finite); a command waiting in handle.join() goes on when
\* the thread has ended.
SpecUiFair ==
    /\ SpecUi
    /\ WF_vars(HideJoin)
    /\ \A i \in 1..MaxUiCalls :
          /\ WF_vars(i <= Len(ui_threads) /\ (ThreadCreated(i) \/ ThreadCreateFails(i)))
          /\ WF_vars(i <= Len(ui_threads) /\ ThreadRecv(i))

(***************************************************************************)
(* Claims about the overlay commands                                       *)
(***************************************************************************)
\* C25: whenever no command is in progress and the overlay thread of the
\* running overlay is alive and has taken every command sent to it, the
\* window captures clicks exactly when move_mode is true; a thread just
\* spawned by show_overlay finds move_mode false and creates its window
\* click-through.
C25_MoveModeIsNotClickThrough ==
    /\ (MutexFree /\ ui_state.is_running /\ ui_state.handle # 0) =>
          LET t == ui_threads[ui_state.handle]
          IN (Alive(t) /\ t.queue = <<>>) => (captures_clicks(t) <=> ui_state.move_mode)
    /\ \A i \in 1..Len(ui_threads) :
          (ui_threads[i].stage = "running" /\ ~captures_clicks(ui_threads[i]))
              => ui_threads[i].input_region = "empty"

\* the overlay shown a second time has been put in move mode and its window
\* takes the clicks
C25_Witness ==
    /\ MutexFree
    /\ Len(ui_threads) = 2
    /\ ui_state.is_running /\ ui_state.move_mode /\ ui_state.handle = 2
    /\ ui_threads[2].stage = "running" /\ ui_threads[2].queue = <<>>
    /\ ui_threads[2].input_region = "full"

\* C29: between commands, is_running is true exactly when the sender and the
\* thread handle are both present, and move_mode is true only when
\* is_running is.
C29_BookkeepingConsistent ==
    MutexFree =>
        /\ ui_state.is_running <=> (ui_state.tx # 0 /\ ui_state.handle # 0)
        /\ ui_state.move_mode => ui_state.is_running

\* hide_overlay has returned for an overlay that was in move mode
C29_Witness ==
    /\ ui_result = Ok("hide_overlay", <<TRUE>>)
    /\ ui_state = DefaultOverlayState
    /\ Len(ui_threads) = 1
    /\ ui_threads[1].stage = "ended" /\ ui_threads[1].input_region = "full"

\* a second show_overlay, or a hide_overlay of an overlay that is not running
ShowAgain == MutexFree /\ ui_calls' = ui_calls + 1 /\ ui_result'.cmd = "show_overlay" /\ ui_state.is_running
HideAgain == MutexFree /\ ui_calls' = ui_calls + 1 /\ ui_result'.cmd = "hide_overlay" /\ ~ui_state.is_running

\* C30: show_overlay on a running overlay and hide_overlay on a stopped one
\* return Ok(true) and change neither OverlayState nor the threads and their
\* queues; at most one overlay thread is alive at a time.
C30_ShowHideIdempotent ==
    [][/\ (ShowAgain \/ HideAgain) =>
            /\ ui_result'.tag = "Ok" /\ ui_result'.value = <<TRUE>>
            /\ ui_state' = ui_state
            /\ ui_threads' = ui_threads
       /\ Cardinality({i \in 1..Len(ui_threads') : Alive(ui_threads'[i])}) <= 1]_vars

\* show_overlay, toggle_move_mode, show_overlay: one thread, still in move mode
C30_Witness ==
    /\ ui_calls = 3
    /\ ui_result = Ok("show_overlay", <<TRUE>>)
    /\ Len(ui_threads) = 1 /\ Alive(ui_threads[1])
    /\ ui_state = [tx |-> 1, handle |-> 1, is_running |-> TRUE, move_mode |-> TRUE]

\* a call of toggle_move_mode that returns an error
ToggleFails == MutexFree /\ ui_calls' = ui_calls + 1 /\ ui_result'.cmd = "toggle_move_mode" /\ ui_result'.tag = "Err"

\* C31: when toggle_move_mode returns an error, whether because the overlay
\* is not running or because the command could not be sent, move_mode has
\* the value it had before the call.
C31_FailedToggleChangesNothing ==
    [][ToggleFails => ui_state'.move_mode = ui_state.move_mode]_vars

\* a call of get_overlay_status
StatusCall == MutexFree /\ ui_calls' = ui_calls + 1 /\ ui_result'.cmd = "get_overlay_status"

\* C32: get_overlay_status reports is_running = true only while the overlay
\* thread is alive: once the thread has ended by itself the status is not
\* running.
C32_StatusRunningOnlyWhileAlive ==
    [][(StatusCall /\ ui_result'.value[1]) =>
          (ui_state.handle # 0 /\ Alive(ui_threads[ui_state.handle]))]_vars

\* the overlay thread takes Shutdown
TakesShutdown(i) ==
    /\ i <= Len(ui_threads) /\ ui_threads[i].stage = "running"
    /\ ui_threads[i].queue # <<>> /\ Head(ui_threads[i].queue) = Shutdown
    /\ ui_threads'[i].taken = ui_threads[i].taken + 1

\* C33: hide_overlay always completes.  The thread takes the commands in the
\* order sent, so that nothing is left in its queue when it takes Shutdown
\* and exits, and the command waiting in join returns Ok(true), also when
\* the thread had exited before.
C33_HideOverlayCompletes ==
    /\ [][\A i \in 1..MaxUiCalls : TakesShutdown(i) =>
            (ui_threads'[i].queue = <<>> /\ ~Alive(ui_threads'[i]))]_vars
    /\ (ui_result = Pending("hide_overlay")) ~> (ui_result = Ok("hide_overlay", <<TRUE>>))

\* hide_overlay has returned after the thread took two SetMoveMode commands
\* and then Shutdown
C33_Witness ==
    /\ ui_result = Ok("hide_overlay", <<TRUE>>)
    /\ ui_state = DefaultOverlayState
    /\ Len(ui_threads) = 1
    /\ ui_threads[1] = [stage |-> "ended", queue |-> <<>>, input_region |-> "empty", taken |-> 3]

(***************************************************************************)
(* The Wayland overlay window: src/overlay/src/platform/wayland.rs         *)
(***************************************************************************)
\* WaylandState::new followed by create_shm_buffer, as WaylandOverlay::new
\* does: pixel_data is vec![0u8; width * height * 4] and the shared memory
\* is stride * height bytes with stride = width * 4
WaylandState_new(width, height) ==
    [width |-> width, height |-> height, pixel_data |-> (width * height) * 4,
     shm_data |-> (width * 4) * height, last_written |-> -1]

\* WaylandOverlay::set_size
set_size(state, width, height) ==
    IF width = state.width /\ height = state.height THEN state
    ELSE [state EXCEPT !.width = width, !.height = height,
                       !.pixel_data = (width * height) * 4,
                       !.shm_data = (width * 4) * height]

\* zwlr_layer_surface_v1::Event::Configure
configure(state, width, height) ==
    IF width > 0 /\ height > 0
    THEN [state EXCEPT !.width = width, !.height = height]
    ELSE state

\* copy_pixels_to_shm: chunk i of pixel_data.chunks(4) is written at offsets
\* 4i .. 4i + 3 when 4i + 3 < shm_slice.len() and the chunk has 4 bytes; the
\* result is the largest offset written, or -1
copy_pixels_to_shm(state) ==
    LET written == {i \in 0..(state.pixel_data \div 4) :
                      /\ 4 * i < state.pixel_data
                      /\ 4 * i + 3 < state.shm_data
                      /\ state.pixel_data - 4 * i >= 4}
    IN IF written = {} THEN -1
       ELSE 4 * (CHOOSE i \in written : \A j \in written : j <= i) + 3

InitWayland ==
    /\ overflow_checks = FALSE
    /\ ParseIdle /\ FileIdle /\ ServiceIdle /\ ChanIdle /\ BridgeIdle /\ InternIdle
    /\ HandleIdle /\ MetricIdle /\ WatchIdle /\ UiIdle /\ BarIdle /\ ExplorerIdle
    /\ \E w \in 1..MaxDim, h \in 1..MaxDim : wl_state = WaylandState_new(w, h)
    /\ wl_calls = 0

WlUnchanged ==
    UNCHANGED <<overflow_checks, parseVars, fileVars, svcVars, chanVars, bridgeVars,
                internVars, handleVars, metricVars, watchVars, uiVars, barVars,
                explorerVars>>

SetSize(w, h) ==
    /\ wl_calls < MaxWlCalls
    /\ wl_calls' = wl_calls + 1
    /\ wl_state' = set_size(wl_state, w, h)
    /\ WlUnchanged

\* the compositor's Configure event, dispatched by poll_events
Configure(w, h) ==
    /\ wl_calls < MaxWlCalls
    /\ wl_calls' = wl_calls + 1
    /\ wl_state' = configure(wl_state, w, h)
    /\ WlUnchanged

\* commit: copy_pixels_to_shm, then commit_frame
Commit ==
    /\ wl_calls < MaxWlCalls
    /\ wl_calls' = wl_calls + 1
    /\ wl_state' = [wl_state EXCEPT !.last_written = copy_pixels_to_shm(wl_state)]
    /\ WlUnchanged

NextWayland ==
    \/ \E w \in 1..MaxDim, h \in 1..MaxDim : SetSize(w, h)
    \/ \E w \in 0..MaxDim, h \in 0..MaxDim : Configure(w, h)
    \/ Commit

SpecWayland == InitWayland /\ [][NextWayland]_vars

\* C34: the pixel buffer has width() x height() x 4 bytes after any
\* set_size calls and Configure events, and copy_pixels_to_shm writes only
\* inside the shared memory.
C34_PixelBufferMatchesSize ==
    /\ wl_state.pixel_data = wl_state.width * wl_state.height * 4
    /\ wl_state.last_written < wl_state.shm_data

(***************************************************************************)
(* The fill fraction of a meter bar: src/overlay/src/widgets/progress_bar.rs *)
(* and MeterOverlay::render in src/overlay/src/manager.rs                  *)
(***************************************************************************)
\* a quotient of two f64 that hold integers, kept as numerator and
\* denominator (the denominator is positive wherever one is built)
Fraction(num, den) == [num |-> num, den |-> den]

\* f64::clamp(0.0, 1.0) of num / den
clamp01(f) ==
    IF f.num < 0 THEN Fraction(0, 1)
    ELSE IF f.num > f.den THEN Fraction(1, 1)
    ELSE f

\* ProgressBar::progress
progress(bar) ==
    IF bar.max_value <= 0 THEN Fraction(0, 1)
    ELSE clamp01(Fraction(bar.value, bar.max_value))

\* self.entries.iter().map(|e| e.max_value).fold(1.0, f64::max)
RECURSIVE fold_max(_, _)
fold_max(acc, es) ==
    IF es = <<>> THEN acc
    ELSE fold_max(IF Head(es).max_value > acc THEN Head(es).max_value ELSE acc, Tail(es))

\* MeterOverlay::render: the progress passed to draw_progress_bar for each
\* entry, (entry.value / max_val) as f32
render_progress(es) ==
    [i \in 1..Len(es) |-> Fraction(es[i].value, fold_max(1, es))]

\* the entries: value and max_value of each
BarEntries ==
    [value : -1..(MaxBarValue + 1), max_value : 0..MaxBarValue]

RECURSIVE EntryLists(_)
EntryLists(n) ==
    IF n = 0 THEN {<<>>}
    ELSE EntryLists(n - 1) \cup
         {Append(es, e) : es \in {x \in EntryLists(n - 1) : Len(x) = n - 1}, e \in BarEntries}

InitMeter ==
    /\ overflow_checks = FALSE
    /\ ParseIdle /\ FileIdle /\ ServiceIdle /\ ChanIdle /\ BridgeIdle /\ InternIdle
    /\ HandleIdle /\ MetricIdle /\ WatchIdle /\ UiIdle /\ WlIdle /\ ExplorerIdle
    /\ bar_entries \in EntryLists(MaxBars)
    /\ bar_progress = Uncomputed

BarUnchanged ==
    UNCHANGED <<overflow_checks, parseVars, fileVars, svcVars, chanVars, bridgeVars,
                internVars, handleVars, metricVars, watchVars, uiVars, wlVars,
                explorerVars, bar_entries>>

\* MeterOverlay::render
Render ==
    /\ bar_progress = Uncomputed
    /\ bar_progress' = Computed([by |-> "render", fractions |-> render_progress(bar_entries)])
    /\ BarUnchanged

\* ProgressBar::progress of a bar made of each entry
WidgetProgress ==
    /\ bar_progress = Uncomputed
    /\ bar_progress' = Computed([by |-> "progress",
                                 fractions |-> [i \in 1..Len(bar_entries) |-> progress(bar_entries[i])]])
    /\ BarUnchanged

NextMeter ==
    \/ Render
    \/ WidgetProgress

SpecMeter == InitMeter /\ [][NextMeter]_vars

\* a fraction between 0 and 1
InUnitInterval(f) == f.den > 0 /\ 0 <= f.num /\ f.num <= f.den

\* C35: the fill fraction is between 0 and 1, from ProgressBar::progress
\* and from MeterOverlay::render alike, for every entry list, entries whose
\* value exceeds their max_value or is negative included.
C35_FillFractionInUnitInterval ==
    bar_progress.tag = "Computed" =>
        \A i \in 1..Len(bar_entries) : InUnitInterval(bar_progress.value.fractions[i])

\* the combat logs among the paths of a notification, in its order
RECURSIVE CombatLogsOf(_)
CombatLogsOf(paths) ==
    IF paths = <<>> THEN <<>>
    ELSE IF Head(paths) \in CombatLogPaths THEN <<Head(paths)>> \o CombatLogsOf(Tail(paths))
    ELSE CombatLogsOf(Tail(paths))

\* what next_event has returned for the notification it last took
ReturnedForLast == IF watch_out = None THEN <<>> ELSE <<watch_out>>

\* C36: no combat-log creation is lost: for a Create notification, each of
\* its paths that names a combat_*.txt file gives a NewFile event for that
\* path from next_event, in the order of the notification, however many
\* paths it carries.
C36_NoCreationLost ==
    (watch_last.ok /\ watch_last.kind = "Create") =>
        ReturnedForLast =
            [i \in 1..Len(CombatLogsOf(watch_last.paths)) |->
                DirectoryEvent("NewFile", CombatLogsOf(watch_last.paths)[i])]

(***************************************************************************)
(* The data explorer sidebar: src/app/src/components/data_explorer.rs      *)
(***************************************************************************)
\* Option<T> holding a value
SomeOf(v) == [tag |-> "Some", value |-> v]

\* an EncounterSummary, as far as the sidebar reads it; encounter ids are
\* given in the order of the history and differ from the indices
EncounterSummary(i, phase, area, difficulty, boss) ==
    [encounter_id |-> 100 + i, is_phase_start |-> phase, area_name |-> area,
     difficulty |-> difficulty, boss_name |-> boss]

\* area and difficulty of an encounter
Areas == {<<"Dxun", "None">>, <<"Dxun", "8 Player Story">>, <<"Open World", "None">>}

RECURSIVE Histories(_)
Histories(n) ==
    IF n = 0 THEN {<<>>}
    ELSE Histories(n - 1) \cup
         {Append(h, EncounterSummary(n, phase, a[1], a[2], boss)) :
            h \in {x \in Histories(n - 1) : Len(x) = n - 1},
            phase \in BOOLEAN, a \in Areas, boss \in {"None", "Boss"}}

\* one turn of group_by_area's loop, mutated to open a section only at
\* is_phase_start
push_encounter_needs_phase_start(secs, enc) ==
    IF enc.is_phase_start
    THEN Append(secs, [area_name |-> enc.area_name, difficulty |-> enc.difficulty,
                       encounters |-> <<enc>>])
    ELSE IF secs # <<>>
    THEN [secs EXCEPT ![Len(secs)].encounters = Append(@, enc)]
    ELSE secs

\* one turn of group_by_area's loop
push_encounter(secs, enc) ==
    IF enc.is_phase_start \/ secs = <<>>
    THEN Append(secs, [area_name |-> enc.area_name, difficulty |-> enc.difficulty,
                       encounters |-> <<enc>>])
    ELSE IF secs # <<>>
    THEN [secs EXCEPT ![Len(secs)].encounters = Append(@, enc)]
    ELSE secs

RECURSIVE group_by_area_from(_, _)
group_by_area_from(secs, encounters) ==
    IF encounters = <<>> THEN secs
    ELSE group_by_area_from(push_encounter(secs, Head(encounters)), Tail(encounters))

\* group_by_area
group_by_area(encounters) == group_by_area_from(<<>>, encounters)

IsBoss(e) == e.boss_name # "None"

\* history.iter().filter(|e| e.boss_name.is_some()) when bosses_only
filtered_history(h, bosses_only) == IF bosses_only THEN SelectSeq(h, IsBoss) ELSE h

\* Iterator::position, 0-based
position(encs, id) ==
    IF \E i \in 1..Len(encs) : encs[i].encounter_id = id
    THEN SomeOf((CHOOSE i \in 1..Len(encs) :
                  /\ encs[i].encounter_id = id
                  /\ \A j \in 1..(i - 1) : encs[j].encounter_id # id) - 1)
    ELSE None

\* the index given to onclick for the item at enc_offset (0-based) of a section
enc_idx(filtered, enc, enc_offset) ==
    IF position(filtered, enc.encounter_id) = None THEN enc_offset
    ELSE position(filtered, enc.encounter_id).value

\* the encounter whose data a query with encounter_idx loads: the one at
\* that index of the session history
query_encounter(h, idx) == IF idx < Len(h) THEN SomeOf(h[idx + 1]) ELSE None

InitExplorer ==
    /\ overflow_checks = FALSE
    /\ ParseIdle /\ FileIdle /\ ServiceIdle /\ ChanIdle /\ BridgeIdle /\ InternIdle
    /\ HandleIdle /\ MetricIdle /\ WatchIdle /\ UiIdle /\ WlIdle /\ BarIdle
    /\ history \in Histories(MaxEncounters)
    /\ show_only_bosses = FALSE
    /\ sections = group_by_area(filtered_history(history, FALSE))
    /\ selected_encounter = None
    /\ clicked = None
    /\ loaded = None

ExplorerUnchanged ==
    UNCHANGED <<overflow_checks, parseVars, fileVars, svcVars, chanVars, bridgeVars,
                internVars, handleVars, metricVars, watchVars, uiVars, wlVars, barVars,
                history>>

\* onchange of the boss filter, and the render that follows the signal
ToggleBossFilter ==
    /\ show_only_bosses' = ~show_only_bosses
    /\ sections' = group_by_area(filtered_history(history, ~show_only_bosses))
    /\ UNCHANGED <<selected_encounter, clicked, loaded>>
    /\ ExplorerUnchanged

\* onclick of the item at offset o of section s: selected_encounter.set(SomeOf(enc_idx))
ClickEncounter(s, o) ==
    /\ selected_encounter' =
          SomeOf(enc_idx(filtered_history(history, show_only_bosses),
                       sections[s].encounters[o], o - 1))
    /\ clicked' = SomeOf(sections[s].encounters[o])
    /\ loaded' = None
    /\ UNCHANGED <<show_only_bosses, sections>>
    /\ ExplorerUnchanged

\* the effect on selected_encounter: the queries with idx
LoadData ==
    /\ selected_encounter # None
    /\ loaded = None
    /\ loaded' = query_encounter(history, selected_encounter.value)
    /\ loaded' # None
    /\ UNCHANGED <<show_only_bosses, sections, selected_encounter, clicked>>
    /\ ExplorerUnchanged

NextExplorer ==
    \/ ToggleBossFilter
    \/ \E s \in 1..Len(sections) : \E o \in 1..Len(sections[s].encounters) : ClickEncounter(s, o)
    \/ LoadData

SpecExplorer == InitExplorer /\ [][NextExplorer]_vars

(***************************************************************************)
(* Claims about the data explorer                                          *)
(***************************************************************************)
\* the list the sidebar shows
Shown == filtered_history(history, show_only_bosses)

RECURSIVE Concat(_)
Concat(secs) == IF secs = <<>> THEN <<>> ELSE Head(secs).encounters \o Concat(Tail(secs))

\* the position in the shown list at which section s starts
RECURSIVE StartOf(_)
StartOf(s) == IF s = 1 THEN 1 ELSE StartOf(s - 1) + Len(sections[s - 1].encounters)

\* C37: the sections are consecutive parts of the list: their concatenation
\* is the list, none is empty, a section starts at the first encounter and
\* at every encounter with is_phase_start and nowhere else, and each section
\* has the area name and difficulty of its first encounter.
C37_SectionsPartitionList ==
    /\ Concat(sections) = Shown
    /\ \A s \in 1..Len(sections) : sections[s].encounters # <<>>
    /\ {StartOf(s) : s \in 1..Len(sections)} =
          {i \in 1..Len(Shown) : i = 1 \/ Shown[i].is_phase_start}
    /\ \A s \in 1..Len(sections) :
          /\ sections[s].area_name = sections[s].encounters[1].area_name
          /\ sections[s].difficulty = sections[s].encounters[1].difficulty

\* a list that starts without is_phase_start has been split in two sections,
\* the first holding two encounters of different areas
C37_Witness ==
    /\ Len(history) = MaxEncounters /\ ~show_only_bosses
    /\ ~history[1].is_phase_start
    /\ Len(sections) = 2
    /\ Len(sections[1].encounters) = 2
    /\ sections[1].encounters[2].area_name # sections[1].area_name

\* C38: the index selected by a click is the index of the clicked encounter
\* in the full history, with the boss-only filter on or off, and the data
\* loaded after the click are those of the clicked encounter.
C38_ClickSelectsGlobalIndex ==
    /\ (clicked # None) =>
          /\ selected_encounter # None
          /\ query_encounter(history, selected_encounter.value) = clicked
    /\ (loaded # None) => loaded = clicked

====
